---- MODULE Spec2Model ----
(***************************************************************************)
(* The execution racing engine of internal/pkg/reproxy/action.go: the race *)
(* coordinator (action.race), its remote attempt (runRemoteRace) with the  *)
(* holdoff timer, its local attempt (runLocalRace), the temp directory     *)
(* cleanup, and the non-racing handlers runLocal, runRemote and            *)
(* getCachedResult.  Every goroutine is a process with its own position;   *)
(* one action is one step between two synchronisation points.              *)
(***************************************************************************)
EXTENDS Integers, Sequences, FiniteSets, TLC

\* ---------------------------------------------------------------- bounds
MaxExitCode == 1
MaxStaged == 1
MaxHalfMs == 4
MaxHoldoffHalfMs == 3

\* time.Millisecond, in time.Duration units (nanoseconds)
Millisecond == 1000000

\* ------------------------------------------------------- command.Result
NoErr == "none"
ctxErr == "context canceled"

NilResult == [status |-> "nil", exitCode |-> 0, err |-> NoErr, origin |-> "none"]

\* command.NewResultFromExitCode, called by the local paths
NewResultFromExitCode(exitCode) ==
    [status |-> IF exitCode = 0 THEN "success" ELSE "non_zero_exit",
     exitCode |-> exitCode, err |-> NoErr, origin |-> "local"]

\* command.NewLocalErrorResult
NewLocalErrorResult(err) ==
    [status |-> "local_error", exitCode |-> 0, err |-> err, origin |-> "reproxy"]

\* (*Result).IsOk
IsOk(res) == res.status \in {"success", "cache_hit"}

\* results the remote client leaves in execContext.Result
CacheHitResult == [status |-> "cache_hit", exitCode |-> 0, err |-> NoErr, origin |-> "remote"]
CacheErrResult == [status |-> "remote_error", exitCode |-> 0, err |-> "cache lookup", origin |-> "remote"]
ExecOkResult == [status |-> "success", exitCode |-> 0, err |-> NoErr, origin |-> "remote"]
ExecNonZeroResult == [status |-> "non_zero_exit", exitCode |-> 1, err |-> NoErr, origin |-> "remote"]
ExecErrResult == [status |-> "remote_error", exitCode |-> 0, err |-> "execute", origin |-> "remote"]
DownloadErrResult == [status |-> "local_error", exitCode |-> 0, err |-> "download", origin |-> "remote"]

\* what execContext.GetCachedResult can leave in Result (nil on a miss)
GetCachedResultOutcomes == {NilResult, CacheHitResult, CacheErrResult}
\* what execContext.ExecuteRemotely can leave in Result
ExecuteRemotelyOutcomes == {ExecOkResult, ExecNonZeroResult, ExecErrResult}

\* ----------------------------------------------------------- raceResult
remote == "remote"
local == "local"
canceled == "canceled"

raceResult(t, res, oe) == [t |-> t, res |-> res, oe |-> oe]
NoRaceResult == raceResult("none", NilResult, "none")

\* ------------------------------------------------------------- holdoff
\* racingBias values, as fractions <<numerator, denominator>>; all are
\* dyadic, so the float64 product at line 381 is exact
RacingBiases == {<<0, 1>>, <<1, 4>>, <<1, 2>>, <<3, 4>>, <<1, 1>>}
HalfMs == Millisecond \div 2
ForecastLatencies == {k * HalfMs : k \in 0..MaxHalfMs}
MaxHoldoffs == {k * HalfMs : k \in 1..MaxHoldoffHalfMs}

\* time.Duration.Milliseconds(): whole milliseconds, truncated
Milliseconds(d) == d \div Millisecond

\* sl of the holdoff goroutine: the latency in whole milliseconds times
\* racingBias*2, converted back to a Duration (truncating) and clamped
holdoffNoTrunc(dl, bias, maxHoldoff) ==
    LET sl == (dl * bias[1] * 2) \div bias[2]
    IN  IF sl > maxHoldoff THEN maxHoldoff ELSE sl
holdoff(dl, bias, maxHoldoff) ==
    LET sl == ((Milliseconds(dl) * bias[1] * 2) \div bias[2]) * Millisecond
    IN  IF sl > maxHoldoff THEN maxHoldoff ELSE sl

\* dl of the holdoff goroutine: the forecast, or maxHoldoff when it failed
forecastOrMaxIgnoringErr(latency, failed, maxHoldoff) == latency
forecastOrMax(latency, failed, maxHoldoff) ==
    IF failed THEN maxHoldoff ELSE latency

\* ------------------------------------------------------ declared outputs
MaxOutputs == 2

\* a.cmd.OutputFiles, by index, and the content digests a file can have
Outputs == 1..MaxOutputs
Digests == {"d1", "d2"}

\* a path of the exec root: absent, as an earlier build left it (mtime 1),
\* or as written during this action (mtime 2)
NoFile == [exists |-> FALSE, digest |-> "none", mtime |-> 0]
OldFile(d) == [exists |-> TRUE, digest |-> d, mtime |-> 1]
NewFile(d) == [exists |-> TRUE, digest |-> d, mtime |-> 2]

\* the calls that fail in a run: os.Stat (with an error other than
\* not-exist), digest.NewFromFile and os.Chtimes, each for a set of outputs;
\* execContext.GetOutputFileDigests and execContext.GetFlattenedOutputs
NoFaults == [stat |-> {}, digest |-> {}, chtimes |-> {},
             outDigests |-> FALSE, flattened |-> FALSE]
Faults == [stat : SUBSET Outputs, digest : SUBSET Outputs, chtimes : SUBSET Outputs,
           outDigests : BOOLEAN, flattened : BOOLEAN]

\* a missing key of a map[string]filemetadata.Metadata, and the nil map
NoInfo == [ok |-> FALSE, Digest |-> "none", MTime |-> 0]
NoPreExecOuts == [o \in Outputs |-> NoInfo]

\* getPreExecOutsInfo: digest and mtime of every declared output that can
\* be stat-ed and digested
getPreExecOutsInfo(d, faults) ==
    [o \in Outputs |->
        IF d[o].exists /\ o \notin faults.stat /\ o \notin faults.digest
        THEN [ok |-> TRUE, Digest |-> d[o].digest, MTime |-> d[o].mtime]
        ELSE NoInfo]

\* moveOutputsFromTemp: every staged output file is renamed over its
\* destination
moveOutputsFromTemp(d, rOuts) == [o \in Outputs |-> NewFile(rOuts[o])]

\* the exec root when moveOutputsFromTemp returns an error after it has
\* renamed the first k outputs
movedBeforeFailure(d, rOuts, k) ==
    [o \in Outputs |-> IF o <= k THEN NewFile(rOuts[o]) ELSE d[o]]

\* the calls of moveOutputsFromTemp.  Its input: the declared output
\* files and directories, the outputs it skips (a staged file whose
\* metadata holds an error, a staged directory entry that is not a
\* directory), those whose os.MkdirAll (files) or os.RemoveAll
\* (directories) fails, those whose os.Rename fails, and whether the files
\* have the same parent directory
Call(name, kind, o, ok) == [name |-> name, kind |-> kind, o |-> o, ok |-> ok]
MoveReturn(calls, err) == [calls |-> calls, err |-> err]

\* for _, f := range a.cmd.OutputFiles
RECURSIVE moveFiles(_, _, _, _)
moveFiles(m, files, dirs, calls) ==
    IF files = <<>> THEN MoveReturn(calls, FALSE)
    ELSE LET f == Head(files)
             dir == IF m.sameParent THEN 0 ELSE f
             mk == IF dir \in dirs THEN <<>>
                   ELSE <<Call("MkdirAll", "file", f, f \notin m.prepFail)>>
         IN  IF f \in m.skip THEN moveFiles(m, Tail(files), dirs, calls)
             ELSE IF mk # <<>> /\ ~mk[1].ok THEN MoveReturn(calls \o mk, TRUE)
             ELSE IF f \in m.renameFail
             THEN MoveReturn(calls \o mk \o <<Call("Rename", "file", f, FALSE)>>, TRUE)
             ELSE moveFiles(m, Tail(files), dirs \cup {dir},
                            calls \o mk \o <<Call("Rename", "file", f, TRUE)>>)

\* for _, d := range a.cmd.OutputDirs
RECURSIVE moveDirs(_, _, _)
moveDirs(m, ds, calls) ==
    IF ds = <<>> THEN MoveReturn(calls, FALSE)
    ELSE LET d == Head(ds)
         IN  IF d \in m.skip THEN moveDirs(m, Tail(ds), calls)
             ELSE IF d \in m.prepFail
             THEN MoveReturn(calls \o <<Call("RemoveAll", "dir", d, FALSE)>>, TRUE)
             ELSE IF d \in m.renameFail
             THEN MoveReturn(calls \o <<Call("RemoveAll", "dir", d, TRUE),
                                        Call("Rename", "dir", d, FALSE)>>, TRUE)
             ELSE moveDirs(m, Tail(ds),
                           calls \o <<Call("RemoveAll", "dir", d, TRUE),
                                      Call("Rename", "dir", d, TRUE)>>)

moveOutputsFromTemp_callsDirsFirst(m) ==
    LET r == moveDirs(m, m.OutputDirs, <<>>)
    IN  IF r.err THEN r ELSE moveFiles(m, m.OutputFiles, {}, r.calls)

\* the two loops, the second entered only when the first returned no error
moveOutputsFromTemp_calls(m) ==
    LET r == moveFiles(m, m.OutputFiles, {}, <<>>)
    IN  IF r.err THEN r ELSE moveDirs(m, m.OutputDirs, r.calls)

\* the increasing sequence of the elements of a set of outputs
RECURSIVE SeqOf(_)
SeqOf(S) ==
    IF S = {} THEN <<>>
    ELSE LET x == CHOOSE y \in S : \A z \in S : y <= z IN <<x>> \o SeqOf(S \ {x})

\* the inputs: each declared output is a file or a directory
MoveInputs ==
    {[OutputFiles |-> SeqOf(F), OutputDirs |-> SeqOf(Outputs \ F), skip |-> sk,
      prepFail |-> pf, renameFail |-> rf, sameParent |-> sp] :
        F \in SUBSET Outputs, sk \in SUBSET Outputs, pf \in SUBSET Outputs,
        rf \in SUBSET Outputs, sp \in BOOLEAN}

\* restoreUnchangedOutputMtimes: the sets of outputs whose mtime it can end
\* up restoring.  The loop ranges over a Go map (in any order) and returns
\* at the first os.Chtimes that fails, so with a failing output among the
\* unchanged ones any set of the others may have been restored before it.
unchangedOutputs(pre, rOuts) ==
    {o \in Outputs : pre[o].ok /\ pre[o].Digest = rOuts[o]}
restoredSets(pre, rOuts, faults) ==
    IF faults.outDigests THEN {{}}
    ELSE LET Q == unchangedOutputs(pre, rOuts)
             F == Q \cap faults.chtimes
         IN  IF F = {} THEN {Q} ELSE SUBSET (Q \ F)
restoreUnchangedOutputMtimes(d, pre, R) ==
    [o \in Outputs |-> IF o \in R THEN [d[o] EXCEPT !.mtime = pre[o].MTime] ELSE d[o]]

\* excludeUnchangedOutputs: the entries of outs whose destination is
\* missing or cannot be stat-ed, cannot be digested, or has another hash
keepsOutputAlways(o, hash, d, faults) == TRUE
keepsOutput(o, hash, d, faults) ==
    IF d[o].exists /\ o \notin faults.stat
    THEN o \in faults.digest \/ hash # d[o].digest
    ELSE TRUE
excludeUnchangedOutputs(m, d, faults) ==
    [o \in {q \in DOMAIN m : keepsOutput(q, m[q], d, faults)} |-> m[o]]

\* the maps from declared outputs to the hash of their remote node
OutputMaps == UNION {[S -> Digests] : S \in SUBSET Outputs}
EmptyOutputMap == [o \in {} |-> "d1"]

\* ---------------------------------------------------------------- paths
MaxPathLen == 4

\* a path is a sequence of characters; set_by_reclient stands for the
\* characters of that literal, none of which is a separator
Chars == {"a", ".", "/", "\\"}
Paths == UNION {[1..k -> Chars] : k \in 0..MaxPathLen}
Hosts == {"posix", "windows"}

\* os.IsPathSeparator and os.PathSeparator of the host
IsPathSeparatorSlashOnly(h, c) == c = "/"
IsPathSeparator(h, c) == c = "/" \/ (h = "windows" /\ c = "\\")
PathSeparator(h) == IF h = "windows" THEN "\\" ELSE "/"

\* depth
depth(h, p) ==
    IF p = <<>> THEN 0
    ELSE 1 + Cardinality({i \in 1..Len(p) : IsPathSeparator(h, p[i])})

\* the elements of p between separators, empty ones included
RECURSIVE splitPath(_, _, _, _)
splitPath(h, p, acc, cur) ==
    IF p = <<>> THEN Append(acc, cur)
    ELSE IF IsPathSeparator(h, Head(p))
         THEN splitPath(h, Tail(p), Append(acc, cur), <<>>)
         ELSE splitPath(h, Tail(p), acc, Append(cur, Head(p)))

\* filepath.Clean's pass over the elements: empty and "." elements are
\* dropped, ".." removes the element before it, is dropped at the root and
\* is kept at the start of a relative path
RECURSIVE cleanElems(_, _, _)
cleanElems(elems, rooted, out) ==
    IF elems = <<>> THEN out
    ELSE LET e == Head(elems)
             rest == Tail(elems)
         IN  IF e = <<>> \/ e = <<".">> THEN cleanElems(rest, rooted, out)
             ELSE IF e = <<".", ".">>
             THEN IF out # <<>> /\ out[Len(out)] # <<".", ".">>
                  THEN cleanElems(rest, rooted, SubSeq(out, 1, Len(out) - 1))
                  ELSE IF rooted THEN cleanElems(rest, rooted, out)
                  ELSE cleanElems(rest, rooted, Append(out, e))
             ELSE cleanElems(rest, rooted, Append(out, e))

\* filepath.Join of elements that need no cleaning
RECURSIVE joinElems(_, _)
joinElems(h, elems) ==
    IF elems = <<>> THEN <<>>
    ELSE IF Len(elems) = 1 THEN Head(elems)
    ELSE Head(elems) \o <<PathSeparator(h)>> \o joinElems(h, Tail(elems))

\* a volume name (drive letter, UNC or device prefix) can only begin a
\* Windows path that starts with two separators or holds a colon; such
\* paths are left out of the inputs
hasVolumeSyntax(h, p) ==
    h = "windows" /\ Len(p) >= 2 /\ IsPathSeparator(h, p[1]) /\ IsPathSeparator(h, p[2])

\* filepath.Clean of a path without volume name
Clean(h, p) ==
    IF p = <<>> THEN <<".">>
    ELSE LET rooted == IsPathSeparator(h, p[1])
             body == joinElems(h, cleanElems(splitPath(h, p, <<>>, <<>>), rooted, <<>>))
         IN  IF rooted THEN <<PathSeparator(h)>> \o body
             ELSE IF body = <<>> THEN <<".">>
             ELSE body

\* elem of toRemoteWorkingDir: set_by_reclient followed by dirDepth-1 "a"
remoteElemsOffByOne(dirDepth) ==
    [i \in 1..(dirDepth + 1) |-> IF i = 1 THEN <<"set_by_reclient">> ELSE <<"a">>]
remoteElems(dirDepth) ==
    [i \in 1..dirDepth |-> IF i = 1 THEN <<"set_by_reclient">> ELSE <<"a">>]

\* toRemoteWorkingDir
toRemoteWorkingDir(h, workingDir) ==
    IF workingDir = <<>> \/ workingDir = <<".">> THEN workingDir
    ELSE joinElems(h, remoteElems(depth(h, Clean(h, workingDir))))

\* ------------------------------------------------------------ duplicate
MaxDup == 2
MaxWrites == 2

\* an object of the heap: val is the action through which it was last
\* written (0: as built); a LogRecord also holds the pointers to the
\* Environment and Labels maps of its LocalMetadata (0: nil)
Obj(val, env, labels) == [val |-> val, env |-> env, labels |-> labels]

\* the pointer fields of an action that duplicate replaces
PtrFields == {"cmd", "forecast", "rec", "rOpt", "lOpt", "oe"}

\* the heap of an action made by its creator: the six objects its pointer
\* fields refer to, then the Environment and the Labels map of its record
OrigHeap ==
    <<Obj(0, 0, 0), Obj(0, 0, 0), Obj(0, 7, 8), Obj(0, 0, 0), Obj(0, 0, 0),
      Obj(0, 0, 0), Obj(0, 0, 0), Obj(0, 0, 0)>>
OrigAction(hasRec) ==
    [cmd |-> 1, forecast |-> 2, rec |-> IF hasRec THEN 3 ELSE 0, rOpt |-> 4,
     lOpt |-> 5, oe |-> 6]

\* tcmd, tforecast, trOpt, tlOpt: the value the pointer refers to, or the
\* zero value when the pointer is nil
valueCopy(h, ptr) == Obj(IF ptr = 0 THEN 0 ELSE h[ptr].val, 0, 0)

\* trec: logger.NewLogRecord(), and when a.rec is not nil a new
\* LocalMetadata whose Environment and Labels fields are assigned the maps
\* of a.rec.LocalMetadata
newLogRecord(h, a) ==
    IF a.rec = 0 THEN Obj(0, 0, 0) ELSE Obj(0, h[a.rec].env, h[a.rec].labels)

\* the objects one iteration of duplicate's loop allocates, in the order
\* tcmd, tforecast, trec, trOpt, tlOpt, outerr.NewRecordingOutErr()
newObjects(h, a) ==
    <<valueCopy(h, a.cmd), valueCopy(h, a.forecast), newLogRecord(h, a),
      valueCopy(h, a.rOpt), valueCopy(h, a.lOpt), Obj(0, 0, 0)>>

\* newAction of the iteration that allocates after base objects
newAction(base) ==
    [cmd |-> base + 1, forecast |-> base + 2, rec |-> base + 3, rOpt |-> base + 4,
     lOpt |-> base + 5, oe |-> base + 6]

RECURSIVE duplicate_heap(_, _, _)
duplicate_heap(h, a, n) ==
    IF n = 0 THEN h
    ELSE LET h1 == duplicate_heap(h, a, n - 1) IN h1 \o newObjects(h1, a)

\* res of duplicate(n)
duplicate_res(h, n) == [i \in 1..n |-> newAction(Len(h) + 6 * (i - 1))]

\* what a caller can mutate through an action: its log record, the
\* Environment and Labels maps of the record's LocalMetadata, its output
\* sink and its two option messages
Targets == {"rec", "env", "labels", "oe", "rOpt", "lOpt"}

\* the object target t of action a is, 0 when there is none
targetAddr(h, a, t) ==
    IF t \in {"env", "labels"}
    THEN IF a.rec = 0 THEN 0 ELSE h[a.rec][t]
    ELSE a[t]

\* ----------------------------------------------------------------- state
VARIABLES
    op,            \* the handler this run drives
    pc,            \* position of the handler (for race: of the coordinator)
    retLine,       \* source line of the return statement race left by, 0 before
    a_res,         \* a.res
    a_oe,          \* a.oe
    a_execContext, \* a.execContext: [exists, Result]
    a_rec,         \* a.rec: the fields of LocalMetadata and RemoteMetadata used
    dFile,         \* a.dFile
    depsVerified,  \* VerifyDepsFile has returned (true, nil) for this action
    racingBias,    \* a.racingBias
    maxHoldoff,    \* race's maxHoldoff argument
    numFallbacks,  \* *numFallbacks
    ctxDone,       \* the parent ctx is canceled
    ctxDoneAt,     \* the coordinator's position when ctx was canceled
    cancelCalled,  \* cancel() of cCtx was called
    ch,            \* ch: buffered channel of raceResult, capacity 2
    lChCloses,     \* number of close(lCh) executed
    winner,        \* race's winner
    first,         \* the first raceResult the coordinator received
    rr,            \* the second raceResult the coordinator received
    rpc,           \* position of the remote goroutine
    rOut,          \* the raceResult runRemoteRace returns
    tpc,           \* position of the holdoff goroutine
    forecastErr,   \* PercentileDownloadLatency returned an error
    forecastDl,    \* the latency PercentileDownloadLatency returned
    sl,            \* the holdoff goroutine's sl
    lpc,           \* position of the local goroutine
    lOut,          \* the raceResult the local goroutine sends
    pool,          \* the LocalPool's handling of this action's Run call
    procStarted,   \* the pool started a local process for this action
    cpc,           \* position of the cleanup goroutine
    tmpExists,     \* the per-action temp directory exists
    tmpFiles,      \* number of entries staged in it
    execInvoked,   \* ExecuteRemotely was invoked
    opts,          \* execOptionsFromProto(a.rOpt): the two options used here
    disk,          \* the declared outputs as they are in the exec root
    preDisk,       \* the declared outputs as they were when the handler began
    remoteOuts,    \* digest of each declared output in the remote action result
    fsFaults,      \* the file system and client calls that fail in this run
    preExecOuts,   \* race's preExecOuts
    acts,          \* duplicate: the receiver followed by the returned actions
    heap,          \* duplicate: the objects the actions' pointers refer to
    outs,          \* excludeUnchangedOutputs: the argument outs
    filteredOuts,  \* excludeUnchangedOutputs: the returned map
    host,          \* the GOOS family the binary is built for
    path,          \* depth, toRemoteWorkingDir: the argument
    depthRet,      \* depth: the returned int
    dirRet,        \* toRemoteWorkingDir: the returned string
    mv,            \* moveOutputsFromTemp: the declared outputs and the failing calls
    mvRet,         \* moveOutputsFromTemp: the calls it made and whether it returned an error
    tmpDirs,       \* createTmpDir: the directories that exist under the racing-temp root
    tmpRet         \* createTmpDir: what it returned to each action of acts

vars == <<op, pc, retLine, a_res, a_oe, a_execContext, a_rec, dFile, depsVerified,
          racingBias, maxHoldoff, numFallbacks, ctxDone, ctxDoneAt, cancelCalled,
          ch, lChCloses, winner, first, rr, rpc, rOut, tpc, forecastErr, forecastDl,
          sl, lpc, lOut, pool, procStarted, cpc, tmpExists, tmpFiles, execInvoked,
          opts, disk, preDisk, remoteOuts, fsFaults, preExecOuts, acts, heap, outs,
          filteredOuts, host, path, depthRet, dirRet, mv, mvRet, tmpDirs,
          tmpRet>>

\* the state of the racing engine
raceVars == <<op, pc, retLine, a_res, a_oe, a_execContext, a_rec, dFile, depsVerified,
              racingBias, maxHoldoff, numFallbacks, ctxDone, ctxDoneAt, cancelCalled,
              ch, lChCloses, winner, first, rr, rpc, rOut, tpc, forecastErr,
              forecastDl, sl, lpc, lOut, pool, procStarted, cpc, tmpExists, tmpFiles,
              execInvoked>>
\* the declared outputs and the options that govern them
outputVars == <<opts, disk, preDisk, remoteOuts, fsFaults, preExecOuts>>
\* the arguments and results of duplicate and of the path and output helpers
moveVars == <<mv, mvRet>>
tmpVars == <<tmpDirs, tmpRet>>
utilVars == <<acts, heap, outs, filteredOuts, host, path, depthRet, dirRet, moveVars,
              tmpVars>>

Ops == {"race", "runLocal", "runRemote", "getCachedResult", "cacheLocal"}

NoExecContext == [exists |-> FALSE, Result |-> NilResult]
NewRec == [ExecutedLocally |-> FALSE, LocalResult |-> NilResult,
           RemoteResult |-> NilResult, hasRemoteMetadata |-> FALSE,
           CacheHit |-> FALSE, ValidCacheHit |-> FALSE, UpdatedCache |-> FALSE]

\* the action when cacheLocal is called: it has run locally, with or
\* without an execution context, and before that it may have looked up the
\* cache and found nothing or a hit that failed the deps validation
LocalResults ==
    {NewResultFromExitCode(e) : e \in 0..MaxExitCode} \cup {NewLocalErrorResult("run")}
LookedUp == {NilResult, CacheHitResult}
RanLocallyRecs(res) ==
    {[NewRec EXCEPT !.ExecutedLocally = TRUE, !.LocalResult = res]} \cup
    {[NewRec EXCEPT !.ExecutedLocally = TRUE, !.LocalResult = res,
                    !.hasRemoteMetadata = TRUE, !.CacheHit = (cached # NilResult),
                    !.RemoteResult = cached] : cached \in LookedUp}
IdlePool == [st |-> "idle", useCCtx |-> FALSE, exitCode |-> 0, err |-> NoErr]

\* the action as its creator hands it to a handler: no result yet; a
\* dependency file is stored when input processing used shallow mode;
\* getCachedResult is entered with or without an execution context
InitWith(ops, biases, holdoffs) ==
    /\ op \in ops
    /\ pc = "start"
    /\ retLine = 0
    /\ a_res \in IF op = "cacheLocal" THEN LocalResults ELSE {NilResult}
    /\ a_oe = "a.oe"
    /\ a_execContext \in
          IF op = "getCachedResult"
          THEN {NoExecContext, [exists |-> TRUE, Result |-> NilResult]}
          ELSE IF op = "cacheLocal"
          THEN {NoExecContext} \cup {[exists |-> TRUE, Result |-> r] : r \in LookedUp}
          ELSE {NoExecContext}
    /\ a_rec \in IF op = "cacheLocal" THEN RanLocallyRecs(a_res) ELSE {NewRec}
    /\ dFile \in {"", "out.d"}
    /\ depsVerified = FALSE
    /\ racingBias \in biases
    /\ maxHoldoff \in holdoffs
    /\ numFallbacks = 0
    /\ ctxDone = FALSE
    /\ ctxDoneAt = "never"
    /\ cancelCalled = FALSE
    /\ ch = <<>>
    /\ lChCloses = 0
    /\ winner = NoRaceResult
    /\ first = NoRaceResult
    /\ rr = NoRaceResult
    /\ rpc = "idle"
    /\ rOut = NoRaceResult
    /\ tpc = "idle"
    /\ forecastErr = FALSE
    /\ forecastDl = 0
    /\ sl = 0
    /\ lpc = "idle"
    /\ lOut = NoRaceResult
    /\ pool = IdlePool
    /\ procStarted = FALSE
    /\ cpc = "idle"
    /\ tmpExists = FALSE
    /\ tmpFiles = 0
    /\ execInvoked = FALSE

\* preserve-unchanged-mtime with downloads on; every declared output is on
\* disk from an earlier build; the remote result leaves the first output as
\* it is and changes the others; no call fails
OutputsFixed ==
    /\ opts = [DownloadOutputs |-> TRUE, PreserveUnchangedOutputMtime |-> TRUE]
    /\ disk = [o \in Outputs |-> OldFile("d1")]
    /\ preDisk = disk
    /\ remoteOuts = [o \in Outputs |-> IF o = 1 THEN "d1" ELSE "d2"]
    /\ fsFaults = NoFaults
    /\ preExecOuts = NoPreExecOuts

\* either setting of preserve-unchanged-mtime; every declared output absent
\* or on disk from an earlier build; any digests in the remote result; any
\* of the calls failing
OutputsAny ==
    /\ opts \in [DownloadOutputs : {TRUE}, PreserveUnchangedOutputMtime : BOOLEAN]
    /\ disk \in [Outputs -> {NoFile, OldFile("d1")}]
    /\ preDisk = disk
    /\ remoteOuts \in [Outputs -> Digests]
    /\ fsFaults \in {f \in Faults : ~f.flattened}
    /\ preExecOuts = NoPreExecOuts

\* createTmpDir has not been called for an action of acts
TmpIdle ==
    /\ tmpDirs = {}
    /\ tmpRet = [j \in 1..(1 + MaxDup) |-> [st |-> "idle", dir |-> <<>>, err |-> NoErr]]

\* moveOutputsFromTemp is not being called on its own
MoveIdle ==
    /\ mv = [OutputFiles |-> <<>>, OutputDirs |-> <<>>, skip |-> {},
             prepFail |-> {}, renameFail |-> {}, sameParent |-> FALSE]
    /\ mvRet = MoveReturn(<<>>, FALSE)

\* duplicate and the helpers are not being called
UtilIdle ==
    /\ acts = <<>>
    /\ heap = <<>>
    /\ outs = EmptyOutputMap
    /\ filteredOuts = EmptyOutputMap
    /\ host = "posix"
    /\ path = <<>>
    /\ depthRet = 0
    /\ dirRet = <<>>
    /\ MoveIdle
    /\ TmpIdle

\* every handler, at the balanced racing bias
Init == InitWith(Ops, {<<1, 2>>}, {Millisecond}) /\ OutputsFixed /\ UtilIdle

\* race alone, over every racing bias and maximal holdoff
HoldoffInit == InitWith({"race"}, RacingBiases, MaxHoldoffs) /\ OutputsFixed /\ UtilIdle

\* ------------------------------------------------------ cancellation
\* cCtx, cancel := context.WithCancel(ctx): done when cancel() was called
\* or when the parent is done
cCtxDone == cancelCalled \/ ctxDone

\* the parent scope is canceled by race's caller, at any moment
CancelParent ==
    /\ ~ctxDone
    /\ ctxDone' = TRUE
    /\ ctxDoneAt' = pc
    /\ UNCHANGED <<op, pc, retLine, a_res, a_oe, a_execContext, a_rec, dFile,
                   depsVerified, racingBias, maxHoldoff, numFallbacks, cancelCalled,
                   ch, lChCloses, winner, first, rr, rpc, rOut, tpc, forecastErr,
                   forecastDl, sl, lpc, lOut, pool, procStarted, cpc, tmpExists,
                   tmpFiles, execInvoked>>
    /\ UNCHANGED <<outputVars, utilVars>>

\* ------------------------------------------------- race: the coordinator
\* a return of race: the deferred func starts the cleanup goroutine once
\* the defer statement was passed (every return but the one at line 247)
raceReturns(line) ==
    /\ pc' = "done"
    /\ retLine' = line
    /\ cpc' = IF line = 247 THEN cpc ELSE "open"

cancelsSiblingAlways(w) == TRUE

\* if winner.t != canceled { cancel() }
cancelsSibling(w) == w.t # canceled

\* if winner.t == remote || winner.t == canceled { select { case rr := <-ch ...
waitsForSecondRemoteOnly(w) == w.t = remote
waitsForSecond(w) == w.t = remote \/ w.t = canceled

\* if winner.t == canceled && rr.t == local { atomic.AddInt64(numFallbacks, 1) }
fallbackIncrementAnyLocal(w, r) == IF r.t = local THEN 1 ELSE 0
fallbackIncrement(w, r) == IF w.t = canceled /\ r.t = local THEN 1 ELSE 0

\* if rr.t == local { winner = rr }
promoteNever(w, r) == w
promote(w, r) == IF r.t = local THEN r ELSE w

\* getPreExecOutsInfo when preserve-unchanged-mtime is on, createTmpDir, the
\* defer, make(chan ...) and the two go statements
race_createTmpDir ==
    /\ op = "race" /\ pc = "start"
    /\ preExecOuts' = IF opts.PreserveUnchangedOutputMtime
                      THEN getPreExecOutsInfo(disk, fsFaults)
                      ELSE NoPreExecOuts
    /\ \E mkdirOk \in BOOLEAN :
        IF mkdirOk /\ ~tmpExists
        THEN /\ tmpExists' = TRUE
             /\ rpc' = "newContext"
             /\ lpc' = "select"
             /\ pc' = "wait1"
             /\ UNCHANGED <<a_res, retLine, cpc>>
        ELSE /\ a_res' = NewLocalErrorResult("mkdir")
             /\ raceReturns(247)
             /\ UNCHANGED <<tmpExists, rpc, lpc>>
    /\ UNCHANGED <<op, a_oe, a_execContext, a_rec, dFile, depsVerified, racingBias,
                   maxHoldoff, numFallbacks, ctxDone, ctxDoneAt, cancelCalled, ch,
                   lChCloses, winner, first, rr, rOut, tpc, forecastErr, forecastDl,
                   sl, lOut, pool, procStarted, tmpFiles, execInvoked>>
    /\ UNCHANGED <<opts, disk, preDisk, remoteOuts, fsFaults, utilVars>>

\* first select, case winner = <-ch
race_recvFirst ==
    /\ op = "race" /\ pc = "wait1"
    /\ ch # <<>>
    /\ winner' = Head(ch)
    /\ first' = Head(ch)
    /\ ch' = Tail(ch)
    /\ cancelCalled' = (cancelCalled \/ cancelsSibling(Head(ch)))
    /\ pc' = IF waitsForSecond(Head(ch)) THEN "wait2" ELSE "finalize"
    /\ UNCHANGED <<op, retLine, a_res, a_oe, a_execContext, a_rec, dFile,
                   depsVerified, racingBias, maxHoldoff, numFallbacks, ctxDone,
                   ctxDoneAt, lChCloses, rr, rpc, rOut, tpc, forecastErr,
                   forecastDl, sl, lpc, lOut, pool, procStarted, cpc, tmpExists,
                   tmpFiles, execInvoked>>
    /\ UNCHANGED <<outputVars, utilVars>>

\* first select, case <-ctx.Done()
race_ctxDoneFirst ==
    /\ op = "race" /\ pc = "wait1"
    /\ ctxDone
    /\ a_res' = NewLocalErrorResult(ctxErr)
    /\ raceReturns(284)
    /\ UNCHANGED <<op, a_oe, a_execContext, a_rec, dFile, depsVerified, racingBias,
                   maxHoldoff, numFallbacks, ctxDone, ctxDoneAt, cancelCalled, ch,
                   lChCloses, winner, first, rr, rpc, rOut, tpc, forecastErr,
                   forecastDl, sl, lpc, lOut, pool, procStarted, tmpExists, tmpFiles,
                   execInvoked>>
    /\ UNCHANGED <<outputVars, utilVars>>

\* second select, case rr := <-ch
race_recvSecond ==
    /\ op = "race" /\ pc = "wait2"
    /\ ch # <<>>
    /\ rr' = Head(ch)
    /\ ch' = Tail(ch)
    /\ numFallbacks' = numFallbacks + fallbackIncrement(winner, Head(ch))
    /\ winner' = promote(winner, Head(ch))
    /\ pc' = "finalize"
    /\ UNCHANGED <<op, retLine, a_res, a_oe, a_execContext, a_rec, dFile,
                   depsVerified, racingBias, maxHoldoff, ctxDone, ctxDoneAt,
                   cancelCalled, lChCloses, first, rpc, rOut, tpc, forecastErr,
                   forecastDl, sl, lpc, lOut, pool, procStarted, cpc, tmpExists,
                   tmpFiles, execInvoked>>
    /\ UNCHANGED <<outputVars, utilVars>>

\* second select, case <-ctx.Done()
race_ctxDoneSecond ==
    /\ op = "race" /\ pc = "wait2"
    /\ ctxDone
    /\ a_res' = NewLocalErrorResult(ctxErr)
    /\ raceReturns(305)
    /\ UNCHANGED <<op, a_oe, a_execContext, a_rec, dFile, depsVerified, racingBias,
                   maxHoldoff, numFallbacks, ctxDone, ctxDoneAt, cancelCalled, ch,
                   lChCloses, winner, first, rr, rpc, rOut, tpc, forecastErr,
                   forecastDl, sl, lpc, lOut, pool, procStarted, tmpExists, tmpFiles,
                   execInvoked>>
    /\ UNCHANGED <<outputVars, utilVars>>

canceledResultKept(w, res) == res

\* if winner.t == canceled && winner.res != nil { a.res = winner.res }
canceledResult(w, res) == IF w.t = canceled /\ w.res # NilResult THEN w.res ELSE res

\* from := time.Now() ... a.oe = winner.oe: the staged outputs are moved
\* for a remote winner (a failed move returns at line 313, the outputs
\* before the failing one moved) and the mtimes
\* of the unchanged ones are restored when preserve-unchanged-mtime is on
race_finalize ==
    /\ op = "race" /\ pc = "finalize"
    /\ \/ /\ winner.t = remote
          /\ \E moveOk \in BOOLEAN :
               IF moveOk
               THEN /\ tmpFiles' = 0
                    /\ LET moved == moveOutputsFromTemp(disk, remoteOuts)
                       IN  IF opts.PreserveUnchangedOutputMtime
                           THEN \E R \in restoredSets(preExecOuts, remoteOuts, fsFaults) :
                                  disk' = restoreUnchangedOutputMtimes(moved, preExecOuts, R)
                           ELSE disk' = moved
                    /\ a_rec' = [a_rec EXCEPT !.hasRemoteMetadata = TRUE,
                                              !.RemoteResult = winner.res,
                                              !.CacheHit = FALSE]
                    /\ a_res' = winner.res
                    /\ a_oe' = winner.oe
                    /\ raceReturns(334)
               ELSE /\ a_res' = NewLocalErrorResult("move outputs")
                    /\ raceReturns(313)
                    /\ \E k \in 0..(MaxOutputs - 1) :
                         disk' = movedBeforeFailure(disk, remoteOuts, k)
                    /\ UNCHANGED <<tmpFiles, a_rec, a_oe>>
       \/ /\ winner.t = local
          /\ a_oe' = winner.oe
          /\ raceReturns(334)
          /\ UNCHANGED <<a_res, a_rec, tmpFiles, disk>>
       \/ /\ winner.t = canceled
          /\ a_res' = canceledResult(winner, a_res)
          /\ a_oe' = winner.oe
          /\ raceReturns(334)
          /\ UNCHANGED <<a_rec, tmpFiles, disk>>
    /\ UNCHANGED <<op, a_execContext, dFile, depsVerified, racingBias, maxHoldoff,
                   numFallbacks, ctxDone, ctxDoneAt, cancelCalled, ch, lChCloses,
                   winner, first, rr, rpc, rOut, tpc, forecastErr, forecastDl, sl,
                   lpc, lOut, pool, procStarted, tmpExists, execInvoked>>
    /\ UNCHANGED <<opts, preDisk, remoteOuts, fsFaults, preExecOuts, utilVars>>

\* ------------------------------------------- race: the remote goroutine
\* bCtx := context.Background(): the context handed to runRemoteRace for
\* its RPCs is never done
bCtxDone == FALSE

runRemoteRace_ctxDoneWithSibling == cCtxDone
runRemoteRace_ctxDoneWithParent == ctxDone

\* whether the context under which NewContext made the execution context,
\* and so the one ExecuteRemotely runs under, is done
runRemoteRace_ctxDone == bCtxDone

\* what ExecuteRemotely leaves in Result when its context is done
ExecCanceledResult ==
    [status |-> "remote_error", exitCode |-> 0, err |-> ctxErr, origin |-> "remote"]

ExecuteRemotelyUnder(done) ==
    IF done THEN {ExecCanceledResult} ELSE ExecuteRemotelyOutcomes

closesLChNever(cached) == 0

\* close(lCh) of the miss branch, as a number of closes
closesLCh(cached) == IF cached = NilResult THEN 1 ELSE 0

startsHoldoffAlways(cached) == TRUE

\* the else branch of the miss test starts the holdoff goroutine, which
\* closes lCh itself
startsHoldoff(cached) == cached # NilResult

\* a.execContext, err = client.NewContext(ctx, ...) on the background context
runRemoteRace_newContext ==
    /\ rpc = "newContext"
    /\ \E created \in BOOLEAN :
        IF created
        THEN /\ a_execContext' = [exists |-> TRUE, Result |-> NilResult]
             /\ rpc' = "getCachedResult"
             /\ UNCHANGED <<lChCloses, rOut>>
        ELSE /\ a_execContext' = NoExecContext
             /\ lChCloses' = lChCloses + 1
             /\ rOut' = raceResult(canceled, NewLocalErrorResult("new context"), "none")
             /\ rpc' = "send"
    /\ UNCHANGED <<op, pc, retLine, a_res, a_oe, a_rec, dFile, depsVerified,
                   racingBias, maxHoldoff, numFallbacks, ctxDone, ctxDoneAt,
                   cancelCalled, ch, winner, first, rr, tpc, forecastErr, forecastDl,
                   sl, lpc, lOut, pool, procStarted, cpc, tmpExists, tmpFiles,
                   execInvoked>>
    /\ UNCHANGED <<outputVars, utilVars>>

\* a.execContext.GetCachedResult() and the branch on Result == nil: a miss
\* closes lCh and goes on to execute; a hit starts the holdoff goroutine
\* and goes on to the check of res.IsOk()
runRemoteRace_getCachedResult ==
    /\ rpc = "getCachedResult"
    /\ \E cached \in GetCachedResultOutcomes :
        /\ a_execContext' = [a_execContext EXCEPT !.Result = cached]
        /\ lChCloses' = lChCloses + closesLCh(cached)
        /\ tpc' = IF startsHoldoff(cached) THEN "forecast" ELSE tpc
        /\ IF cached = NilResult
           THEN /\ rpc' = "execute"
                /\ UNCHANGED rOut
           ELSE IF ~IsOk(cached)
           THEN /\ rOut' = raceResult(canceled, cached, "none")
                /\ rpc' = "send"
           ELSE /\ rpc' = "download"
                /\ UNCHANGED rOut
    /\ UNCHANGED <<op, pc, retLine, a_res, a_oe, a_rec, dFile, depsVerified,
                   racingBias, maxHoldoff, numFallbacks, ctxDone, ctxDoneAt,
                   cancelCalled, ch, winner, first, rr, forecastErr, forecastDl, sl,
                   lpc, lOut, pool, procStarted, cpc, tmpExists, tmpFiles,
                   execInvoked>>
    /\ UNCHANGED <<outputVars, utilVars>>

\* a.execContext.ExecuteRemotely() is called, after the close(lCh) of the
\* miss branch
runRemoteRace_executeCall ==
    /\ rpc = "execute"
    /\ rpc' = "executing"
    /\ execInvoked' = TRUE
    /\ UNCHANGED <<op, pc, retLine, a_res, a_oe, a_execContext, a_rec, dFile,
                   depsVerified, racingBias, maxHoldoff, numFallbacks, ctxDone,
                   ctxDoneAt, cancelCalled, ch, lChCloses, winner, first, rr, rOut,
                   tpc, forecastErr, forecastDl, sl, lpc, lOut, pool, procStarted,
                   cpc, tmpExists, tmpFiles>>
    /\ UNCHANGED <<outputVars, utilVars>>

\* a.execContext.ExecuteRemotely() returns; select on cCtx.Done(); the
\* check of res.IsOk()
runRemoteRace_executeRemotely ==
    /\ rpc = "executing"
    /\ \E executed \in ExecuteRemotelyUnder(runRemoteRace_ctxDone) :
        /\ a_execContext' = [a_execContext EXCEPT !.Result = executed]
        /\ IF cCtxDone
           THEN /\ rOut' = raceResult(canceled, NilResult, "none")
                /\ rpc' = "send"
           ELSE IF ~IsOk(executed)
           THEN /\ rOut' = raceResult(canceled, executed, "none")
                /\ rpc' = "send"
           ELSE /\ rpc' = "download"
                /\ UNCHANGED rOut
    /\ UNCHANGED <<op, pc, retLine, a_res, a_oe, a_rec, dFile, depsVerified,
                   racingBias, maxHoldoff, numFallbacks, ctxDone, ctxDoneAt,
                   cancelCalled, ch, lChCloses, winner, first, rr, tpc, forecastErr,
                   forecastDl, sl, lpc, lOut, pool, procStarted, cpc, tmpExists,
                   tmpFiles, execInvoked>>
    /\ UNCHANGED <<outputVars, utilVars>>

\* a.execContext.DownloadOutputs(tmpDir) stages one more output; the
\* parents of an output are created when missing
runRemoteRace_downloadWrite ==
    /\ rpc = "download"
    /\ ~tmpExists \/ tmpFiles < MaxStaged
    /\ tmpExists' = TRUE
    /\ tmpFiles' = IF tmpExists THEN tmpFiles + 1 ELSE 1
    /\ UNCHANGED <<op, pc, retLine, a_res, a_oe, a_execContext, a_rec, dFile,
                   depsVerified, racingBias, maxHoldoff, numFallbacks, ctxDone,
                   ctxDoneAt, cancelCalled, ch, lChCloses, winner, first, rr, rpc,
                   rOut, tpc, forecastErr, forecastDl, sl, lpc, lOut, pool,
                   procStarted, cpc, execInvoked>>
    /\ UNCHANGED <<outputVars, utilVars>>

\* DownloadOutputs returns; select on cCtx.Done(); the check of
\* a.execContext.Result.IsOk(); the final return
runRemoteRace_downloadDone ==
    /\ rpc = "download"
    /\ \E downloaded \in BOOLEAN :
        LET res == IF downloaded THEN a_execContext.Result ELSE DownloadErrResult
        IN  /\ a_execContext' = [a_execContext EXCEPT !.Result = res]
            /\ rOut' = IF cCtxDone THEN raceResult(canceled, NilResult, "none")
                       ELSE IF ~IsOk(res) THEN raceResult(canceled, res, "rOE")
                       ELSE raceResult(remote, res, "rOE")
    /\ rpc' = "send"
    /\ UNCHANGED <<op, pc, retLine, a_res, a_oe, a_rec, dFile, depsVerified,
                   racingBias, maxHoldoff, numFallbacks, ctxDone, ctxDoneAt,
                   cancelCalled, ch, lChCloses, winner, first, rr, tpc, forecastErr,
                   forecastDl, sl, lpc, lOut, pool, procStarted, cpc, tmpExists,
                   tmpFiles, execInvoked>>
    /\ UNCHANGED <<outputVars, utilVars>>

chHasRoomForOne(c) == Len(c) < 1

\* ch := make(chan raceResult, 2): a send proceeds while the buffer holds
\* fewer than two outcomes
chHasRoom(c) == Len(c) < 2

\* ch <- a.runRemoteRace(...)
race_sendRemote ==
    /\ rpc = "send"
    /\ chHasRoom(ch)
    /\ ch' = Append(ch, rOut)
    /\ rpc' = "done"
    /\ UNCHANGED <<op, pc, retLine, a_res, a_oe, a_execContext, a_rec, dFile,
                   depsVerified, racingBias, maxHoldoff, numFallbacks, ctxDone,
                   ctxDoneAt, cancelCalled, lChCloses, winner, first, rr, rOut, tpc,
                   forecastErr, forecastDl, sl, lpc, lOut, pool, procStarted, cpc,
                   tmpExists, tmpFiles, execInvoked>>
    /\ UNCHANGED <<outputVars, utilVars>>

\* ------------------------------------------ race: the holdoff goroutine
\* dl, err := a.forecast.PercentileDownloadLatency(...) and the
\* computation of sl
holdoff_forecast ==
    /\ tpc = "forecast"
    /\ \E failed \in BOOLEAN :
       \E latency \in IF failed THEN {0} ELSE ForecastLatencies :
        /\ forecastErr' = failed
        /\ forecastDl' = latency
        /\ sl' = holdoff(forecastOrMax(latency, failed, maxHoldoff), racingBias,
                         maxHoldoff)
    /\ tpc' = "sleep"
    /\ UNCHANGED <<op, pc, retLine, a_res, a_oe, a_execContext, a_rec, dFile,
                   depsVerified, racingBias, maxHoldoff, numFallbacks, ctxDone,
                   ctxDoneAt, cancelCalled, ch, lChCloses, winner, first, rr, rpc,
                   rOut, lpc, lOut, pool, procStarted, cpc, tmpExists, tmpFiles,
                   execInvoked>>
    /\ UNCHANGED <<outputVars, utilVars>>

\* time.Sleep(sl) is over; close(lCh)
holdoff_closeLCh ==
    /\ tpc = "sleep"
    /\ lChCloses' = lChCloses + 1
    /\ tpc' = "done"
    /\ UNCHANGED <<op, pc, retLine, a_res, a_oe, a_execContext, a_rec, dFile,
                   depsVerified, racingBias, maxHoldoff, numFallbacks, ctxDone,
                   ctxDoneAt, cancelCalled, ch, winner, first, rr, rpc, rOut,
                   forecastErr, forecastDl, sl, lpc, lOut, pool, procStarted, cpc,
                   tmpExists, tmpFiles, execInvoked>>
    /\ UNCHANGED <<outputVars, utilVars>>

\* ------------------------------------------------------ the local pool
\* pool.Run(ctx, cCtx, ...) while the command is queued: a cancellation of
\* either scope makes Run return a cancellation error, and then no process
\* was started
pool_canceled ==
    /\ pool.st = "queued"
    /\ ctxDone \/ (pool.useCCtx /\ cancelCalled)
    /\ pool' = [pool EXCEPT !.st = "returned", !.exitCode = 0, !.err = ctxErr]
    /\ UNCHANGED <<op, pc, retLine, a_res, a_oe, a_execContext, a_rec, dFile,
                   depsVerified, racingBias, maxHoldoff, numFallbacks, ctxDone,
                   ctxDoneAt, cancelCalled, ch, lChCloses, winner, first, rr, rpc,
                   rOut, tpc, forecastErr, forecastDl, sl, lpc, lOut, procStarted,
                   cpc, tmpExists, tmpFiles, execInvoked>>
    /\ UNCHANGED <<outputVars, utilVars>>

\* the pool moves the command from queued to executing: the process starts
pool_start ==
    /\ pool.st = "queued"
    /\ pool' = [pool EXCEPT !.st = "running"]
    /\ procStarted' = TRUE
    /\ UNCHANGED <<op, pc, retLine, a_res, a_oe, a_execContext, a_rec, dFile,
                   depsVerified, racingBias, maxHoldoff, numFallbacks, ctxDone,
                   ctxDoneAt, cancelCalled, ch, lChCloses, winner, first, rr, rpc,
                   rOut, tpc, forecastErr, forecastDl, sl, lpc, lOut, cpc,
                   tmpExists, tmpFiles, execInvoked>>
    /\ UNCHANGED <<outputVars, utilVars>>

\* the process ends: Run returns its exit code, with or without an error
pool_exit ==
    /\ pool.st = "running"
    /\ \E exitCode \in 0..MaxExitCode, err \in {NoErr, "exec"} :
        pool' = [pool EXCEPT !.st = "returned", !.exitCode = exitCode, !.err = err]
    /\ UNCHANGED <<op, pc, retLine, a_res, a_oe, a_execContext, a_rec, dFile,
                   depsVerified, racingBias, maxHoldoff, numFallbacks, ctxDone,
                   ctxDoneAt, cancelCalled, ch, lChCloses, winner, first, rr, rpc,
                   rOut, tpc, forecastErr, forecastDl, sl, lpc, lOut, procStarted,
                   cpc, tmpExists, tmpFiles, execInvoked>>
    /\ UNCHANGED <<outputVars, utilVars>>

\* -------------------------------------------- race: the local goroutine
lChClosedAlways == TRUE

\* case <-lCh: a receive on lCh can proceed only once lCh is closed
lChClosed == lChCloses > 0

\* select { case <-lCh: ... case <-cCtx.Done(): ... }
race_localSelect ==
    /\ lpc = "select"
    /\ \/ /\ lChClosed
          /\ pool' = [IdlePool EXCEPT !.st = "queued", !.useCCtx = TRUE]
          /\ lpc' = "run"
          /\ UNCHANGED lOut
       \/ /\ cCtxDone
          /\ lOut' = raceResult(canceled, NilResult, "none")
          /\ lpc' = "send"
          /\ UNCHANGED pool
    /\ UNCHANGED <<op, pc, retLine, a_res, a_oe, a_execContext, a_rec, dFile,
                   depsVerified, racingBias, maxHoldoff, numFallbacks, ctxDone,
                   ctxDoneAt, cancelCalled, ch, lChCloses, winner, first, rr, rpc,
                   rOut, tpc, forecastErr, forecastDl, sl, procStarted, cpc,
                   tmpExists, tmpFiles, execInvoked>>
    /\ UNCHANGED <<outputVars, utilVars>>

runLocalRace_classifyZeroExitOnly(exitCode, err) ==
    IF exitCode = 0 /\ err = NoErr THEN local ELSE canceled

\* runLocalRace after pool.Run returned: the classification of
\* (exitCode, err) and, for a local outcome, the update of a.res and a.rec
runLocalRace_classify(exitCode, err) ==
    IF err = ctxErr THEN canceled
    ELSE IF exitCode = 0 /\ err # NoErr THEN canceled
    ELSE local

runLocalRace_return ==
    /\ lpc = "run"
    /\ pool.st = "returned"
    /\ pool' = [pool EXCEPT !.st = "done"]
    /\ IF runLocalRace_classify(pool.exitCode, pool.err) = canceled
       THEN /\ lOut' = raceResult(canceled,
                                  IF pool.err = ctxErr THEN NilResult
                                  ELSE NewLocalErrorResult(pool.err), "none")
            /\ UNCHANGED <<a_res, a_rec>>
       ELSE /\ a_res' = NewResultFromExitCode(pool.exitCode)
            /\ a_rec' = [a_rec EXCEPT !.ExecutedLocally = TRUE,
                                      !.LocalResult = NewResultFromExitCode(pool.exitCode)]
            /\ lOut' = raceResult(local, NewResultFromExitCode(pool.exitCode), "lOE")
    /\ lpc' = "send"
    /\ UNCHANGED <<op, pc, retLine, a_oe, a_execContext, dFile, depsVerified,
                   racingBias, maxHoldoff, numFallbacks, ctxDone, ctxDoneAt,
                   cancelCalled, ch, lChCloses, winner, first, rr, rpc, rOut, tpc,
                   forecastErr, forecastDl, sl, procStarted, cpc, tmpExists,
                   tmpFiles, execInvoked>>
    /\ UNCHANGED <<outputVars, utilVars>>

\* ch <- a.runLocalRace(...) or ch <- raceResult{t: canceled}
race_sendLocal ==
    /\ lpc = "send"
    /\ chHasRoom(ch)
    /\ ch' = Append(ch, lOut)
    /\ lpc' = "done"
    /\ UNCHANGED <<op, pc, retLine, a_res, a_oe, a_execContext, a_rec, dFile,
                   depsVerified, racingBias, maxHoldoff, numFallbacks, ctxDone,
                   ctxDoneAt, cancelCalled, lChCloses, winner, first, rr, rpc, rOut,
                   tpc, forecastErr, forecastDl, sl, lOut, pool, procStarted, cpc,
                   tmpExists, tmpFiles, execInvoked>>
    /\ UNCHANGED <<outputVars, utilVars>>

\* ------------------------------------------- race: the cleanup goroutine
\* removeContents: os.Open(dir) and Readdirnames; a missing directory ends
\* the cleanup with an error that is logged
cleanup_open ==
    /\ cpc = "open"
    /\ cpc' = IF tmpExists THEN "remove" ELSE "done"
    /\ UNCHANGED <<op, pc, retLine, a_res, a_oe, a_execContext, a_rec, dFile,
                   depsVerified, racingBias, maxHoldoff, numFallbacks, ctxDone,
                   ctxDoneAt, cancelCalled, ch, lChCloses, winner, first, rr, rpc,
                   rOut, tpc, forecastErr, forecastDl, sl, lpc, lOut, pool,
                   procStarted, tmpExists, tmpFiles, execInvoked>>
    /\ UNCHANGED <<outputVars, utilVars>>

\* removeContents: os.RemoveAll of every entry, then of the directory
cleanup_removeAll ==
    /\ cpc = "remove"
    /\ tmpExists' = FALSE
    /\ tmpFiles' = 0
    /\ cpc' = "done"
    /\ UNCHANGED <<op, pc, retLine, a_res, a_oe, a_execContext, a_rec, dFile,
                   depsVerified, racingBias, maxHoldoff, numFallbacks, ctxDone,
                   ctxDoneAt, cancelCalled, ch, lChCloses, winner, first, rr, rpc,
                   rOut, tpc, forecastErr, forecastDl, sl, lpc, lOut, pool,
                   procStarted, execInvoked>>
    /\ UNCHANGED <<outputVars, utilVars>>

\* -------------------------------------------------------------- runLocal
\* exitCode, err := pool.Run(ctx, ctx, ...): the call
runLocal_call ==
    /\ op = "runLocal" /\ pc = "start"
    /\ pool' = [IdlePool EXCEPT !.st = "queued"]
    /\ pc' = "run"
    /\ UNCHANGED <<op, retLine, a_res, a_oe, a_execContext, a_rec, dFile,
                   depsVerified, racingBias, maxHoldoff, numFallbacks, ctxDone,
                   ctxDoneAt, cancelCalled, ch, lChCloses, winner, first, rr, rpc,
                   rOut, tpc, forecastErr, forecastDl, sl, lpc, lOut, procStarted,
                   cpc, tmpExists, tmpFiles, execInvoked>>
    /\ UNCHANGED <<outputVars, utilVars>>

\* the Result runLocal builds from what pool.Run returned
runLocal_result(exitCode, err) ==
    IF exitCode = 0 /\ err # NoErr THEN NewLocalErrorResult(err)
    ELSE NewResultFromExitCode(exitCode)

\* runLocal after pool.Run returned
runLocal_return ==
    /\ op = "runLocal" /\ pc = "run"
    /\ pool.st = "returned"
    /\ pool' = [pool EXCEPT !.st = "done"]
    /\ a_res' = runLocal_result(pool.exitCode, pool.err)
    /\ a_rec' = [a_rec EXCEPT !.ExecutedLocally = TRUE,
                              !.LocalResult = runLocal_result(pool.exitCode, pool.err)]
    /\ pc' = "done"
    /\ UNCHANGED <<op, retLine, a_oe, a_execContext, dFile, depsVerified,
                   racingBias, maxHoldoff, numFallbacks, ctxDone, ctxDoneAt,
                   cancelCalled, ch, lChCloses, winner, first, rr, rpc, rOut, tpc,
                   forecastErr, forecastDl, sl, lpc, lOut, procStarted, cpc,
                   tmpExists, tmpFiles, execInvoked>>
    /\ UNCHANGED <<outputVars, utilVars>>

\* ------------------------------------------------------------- runRemote
\* res of runRemote: a failed NewContext gives a local error; a cached
\* result that is not nil is taken; otherwise the execution's result
runRemote_executesUnlessOk(created, cached) ==
    created /\ ~(cached # NilResult /\ IsOk(cached))
runRemote_executes(created, cached) ==
    created /\ cached = NilResult
runRemote_result(created, cached, executed) ==
    IF ~created THEN NewLocalErrorResult("new context")
    ELSE IF runRemote_executes(created, cached) THEN executed
    ELSE cached

\* the exec root after runRemote: with excludeUnchanged only the outputs
\* excludeUnchangedOutputs keeps are downloaded; otherwise the client
\* downloads every output when DownloadOutputs is set
runRemote_outputs(res, d) ==
    IF opts.DownloadOutputs /\ opts.PreserveUnchangedOutputMtime
    THEN IF res.err # NoErr \/ fsFaults.flattened THEN d
         ELSE LET kept == DOMAIN excludeUnchangedOutputs(remoteOuts, d, fsFaults)
              IN  [o \in Outputs |-> IF o \in kept THEN NewFile(remoteOuts[o]) ELSE d[o]]
    ELSE IF opts.DownloadOutputs /\ res.err = NoErr /\ res.origin = "remote"
         THEN [o \in Outputs |-> NewFile(remoteOuts[o])]
         ELSE d

runRemote ==
    /\ op = "runRemote" /\ pc = "start"
    /\ \E created \in BOOLEAN, cached \in GetCachedResultOutcomes,
          executed \in ExecuteRemotelyOutcomes :
        /\ a_res' = runRemote_result(created, cached, executed)
        /\ a_rec' = [a_rec EXCEPT !.hasRemoteMetadata = TRUE, !.CacheHit = FALSE,
                        !.RemoteResult = runRemote_result(created, cached, executed)]
        /\ execInvoked' = runRemote_executes(created, cached)
        /\ disk' = runRemote_outputs(runRemote_result(created, cached, executed), disk)
    /\ pc' = "done"
    /\ UNCHANGED <<op, retLine, a_oe, a_execContext, dFile, depsVerified,
                   racingBias, maxHoldoff, numFallbacks, ctxDone, ctxDoneAt,
                   cancelCalled, ch, lChCloses, winner, first, rr, rpc, rOut, tpc,
                   forecastErr, forecastDl, sl, lpc, lOut, pool, procStarted, cpc,
                   tmpExists, tmpFiles>>
    /\ UNCHANGED <<opts, preDisk, remoteOuts, fsFaults, preExecOuts, utilVars>>

\* ------------------------------------------------------- getCachedResult
\* cachedResultValid: no stored dependency file, or VerifyDepsFile
\* returned (true, nil)
cachedResultValidIgnoringErr(d, verified, verifyFailed) == d = "" \/ verified

cachedResultValid(d, verified, verifyFailed) ==
    d = "" \/ (~verifyFailed /\ verified)

getCachedResult ==
    /\ op = "getCachedResult" /\ pc = "start"
    /\ IF ~a_execContext.exists
       THEN UNCHANGED <<a_execContext, a_rec, a_res, depsVerified>>
       ELSE \E cached \in GetCachedResultOutcomes,
               verified \in BOOLEAN, verifyFailed \in BOOLEAN :
             /\ a_execContext' = [a_execContext EXCEPT !.Result = cached]
             /\ IF cached = NilResult \/ ~IsOk(cached)
                THEN /\ a_res' = cached
                     /\ a_rec' = [a_rec EXCEPT !.hasRemoteMetadata = TRUE,
                                     !.CacheHit = FALSE, !.RemoteResult = NilResult]
                     /\ UNCHANGED depsVerified
                ELSE /\ depsVerified' = (dFile # "" /\ ~verifyFailed /\ verified)
                     /\ a_res' = IF cachedResultValid(dFile, verified, verifyFailed)
                                 THEN cached
                                 ELSE NewLocalErrorResult("failed deps validation")
                     /\ a_rec' = [a_rec EXCEPT !.hasRemoteMetadata = TRUE,
                                     !.CacheHit = TRUE, !.RemoteResult = cached,
                                     !.ValidCacheHit =
                                         IF cachedResultValid(dFile, verified, verifyFailed)
                                         THEN TRUE ELSE @]
    /\ pc' = "done"
    /\ UNCHANGED <<op, retLine, a_oe, dFile, racingBias, maxHoldoff, numFallbacks,
                   ctxDone, ctxDoneAt, cancelCalled, ch, lChCloses, winner, first,
                   rr, rpc, rOut, tpc, forecastErr, forecastDl, sl, lpc, lOut, pool,
                   procStarted, cpc, tmpExists, tmpFiles, execInvoked>>
    /\ UNCHANGED <<outputVars, utilVars>>

\* ------------------------------------------------------------- duplicate
\* a.duplicate(n): acts becomes the receiver followed by res
duplicate ==
    /\ op = "duplicate" /\ pc = "start"
    /\ \E n \in 0..MaxDup :
        /\ heap' = duplicate_heap(heap, acts[1], n)
        /\ acts' = acts \o duplicate_res(heap, n)
    /\ pc' = "done"
    /\ UNCHANGED <<op, retLine, a_res, a_oe, a_execContext, a_rec, dFile,
                   depsVerified, racingBias, maxHoldoff, numFallbacks, ctxDone,
                   ctxDoneAt, cancelCalled, ch, lChCloses, winner, first, rr, rpc,
                   rOut, tpc, forecastErr, forecastDl, sl, lpc, lOut, pool,
                   procStarted, cpc, tmpExists, tmpFiles, execInvoked>>
    /\ UNCHANGED <<outputVars, outs, filteredOuts, host, path, depthRet, dirRet, moveVars,
                   tmpVars>>

\* number of objects written since they were allocated or copied
written == Cardinality({i \in 1..Len(heap) : heap[i].val # 0})

\* the holder of action j (the receiver is 1) writes to target t of it,
\* before or after the duplication
write(j, t) ==
    /\ op = "duplicate"
    /\ written < MaxWrites
    /\ targetAddr(heap, acts[j], t) # 0
    /\ heap[targetAddr(heap, acts[j], t)].val # j
    /\ heap' = [heap EXCEPT ![targetAddr(heap, acts[j], t)].val = j]
    /\ UNCHANGED <<raceVars, outputVars, acts, outs, filteredOuts, host, path,
                   depthRet, dirRet, moveVars, tmpVars>>

mutate == \E j \in 1..Len(acts), t \in Targets : write(j, t)

\* --------------------------------------------------------- createTmpDir
\* tmpDir := filepath.Join(a.racingTmp, a.cmd.Identifiers.ExecutionID): the
\* racing-temp root is a field of the action that duplicate copies, the
\* execution id is in the value of the command
createTmpDir_path(h, a) == <<"racingTmp", h[a.cmd].val>>

\* a.createTmpDir() of the action acts[j], at the start of its race:
\* os.Mkdir fails when the directory exists, and can fail otherwise
createTmpDir_call ==
    /\ op = "duplicate" /\ pc = "done"
    /\ \E j \in 1..Len(acts), mkdirOk \in BOOLEAN :
        LET tmpDir == createTmpDir_path(heap, acts[j])
        IN  /\ tmpRet[j].st = "idle"
            /\ IF tmpDir \in tmpDirs
               THEN /\ tmpRet' = [tmpRet EXCEPT ![j] =
                                     [st |-> "failed", dir |-> <<>>, err |-> "file exists"]]
                    /\ UNCHANGED tmpDirs
               ELSE IF ~mkdirOk
               THEN /\ tmpRet' = [tmpRet EXCEPT ![j] =
                                     [st |-> "failed", dir |-> <<>>, err |-> "mkdir"]]
                    /\ UNCHANGED tmpDirs
               ELSE /\ tmpRet' = [tmpRet EXCEPT ![j] =
                                     [st |-> "created", dir |-> tmpDir, err |-> NoErr]]
                    /\ tmpDirs' = tmpDirs \cup {tmpDir}
    /\ UNCHANGED <<raceVars, outputVars, acts, heap, outs, filteredOuts, host, path,
                   depthRet, dirRet, moveVars>>

\* the cleanup function createTmpDir returned to acts[j], run by the
\* goroutine race starts when it returns: removeContents(tmpDir)
createTmpDir_cleanup ==
    /\ op = "duplicate" /\ pc = "done"
    /\ \E j \in 1..Len(acts) :
        /\ tmpRet[j].st = "created"
        /\ tmpRet' = [tmpRet EXCEPT ![j].st = "cleaned"]
        /\ tmpDirs' = tmpDirs \ {tmpRet[j].dir}
    /\ UNCHANGED <<raceVars, outputVars, acts, heap, outs, filteredOuts, host, path,
                   depthRet, dirRet, moveVars>>

\* ------------------------------------------- excludeUnchangedOutputs
\* filteredOuts of a.excludeUnchangedOutputs(outs, a.cmd.ExecRoot)
excludeUnchangedOutputs_call ==
    /\ op = "excludeUnchangedOutputs" /\ pc = "start"
    /\ filteredOuts' = excludeUnchangedOutputs(outs, disk, fsFaults)
    /\ pc' = "done"
    /\ UNCHANGED <<op, retLine, a_res, a_oe, a_execContext, a_rec, dFile,
                   depsVerified, racingBias, maxHoldoff, numFallbacks, ctxDone,
                   ctxDoneAt, cancelCalled, ch, lChCloses, winner, first, rr, rpc,
                   rOut, tpc, forecastErr, forecastDl, sl, lpc, lOut, pool,
                   procStarted, cpc, tmpExists, tmpFiles, execInvoked>>
    /\ UNCHANGED <<outputVars, acts, heap, outs, host, path, depthRet, dirRet, moveVars,
                   tmpVars>>

\* ---------------------------------------------------------------- paths
\* depth(path)
depth_call ==
    /\ op = "depth" /\ pc = "start"
    /\ depthRet' = depth(host, path)
    /\ pc' = "done"
    /\ UNCHANGED <<op, retLine, a_res, a_oe, a_execContext, a_rec, dFile,
                   depsVerified, racingBias, maxHoldoff, numFallbacks, ctxDone,
                   ctxDoneAt, cancelCalled, ch, lChCloses, winner, first, rr, rpc,
                   rOut, tpc, forecastErr, forecastDl, sl, lpc, lOut, pool,
                   procStarted, cpc, tmpExists, tmpFiles, execInvoked>>
    /\ UNCHANGED <<outputVars, acts, heap, outs, filteredOuts, host, path, dirRet, moveVars,
                   tmpVars>>

\* toRemoteWorkingDir(workingDir)
toRemoteWorkingDir_call ==
    /\ op = "toRemoteWorkingDir" /\ pc = "start"
    /\ dirRet' = toRemoteWorkingDir(host, path)
    /\ pc' = "done"
    /\ UNCHANGED <<op, retLine, a_res, a_oe, a_execContext, a_rec, dFile,
                   depsVerified, racingBias, maxHoldoff, numFallbacks, ctxDone,
                   ctxDoneAt, cancelCalled, ch, lChCloses, winner, first, rr, rpc,
                   rOut, tpc, forecastErr, forecastDl, sl, lpc, lOut, pool,
                   procStarted, cpc, tmpExists, tmpFiles, execInvoked>>
    /\ UNCHANGED <<outputVars, acts, heap, outs, filteredOuts, host, path, depthRet, moveVars,
                   tmpVars>>

\* ----------------------------------------------------------- cacheLocal
\* what execContext.UpdateCachedResult can leave in Result
UpdateErrResult == [status |-> "remote_error", exitCode |-> 0, err |-> "update cache", origin |-> "remote"]
UpdateCachedResultOutcomes == {ExecOkResult, UpdateErrResult}

cacheLocal_recFresh(rec) ==
    [rec EXCEPT !.hasRemoteMetadata = TRUE, !.RemoteResult = NilResult,
                !.CacheHit = FALSE, !.UpdatedCache = TRUE]

\* rm := a.rec.RemoteMetadata ... a.rec.LocalMetadata.UpdatedCache = true:
\* the metadata of the update replaces the remote metadata, and the Result
\* and CacheHit of the replaced metadata, if there was one, are put into it
cacheLocal_rec(rec) ==
    [rec EXCEPT !.hasRemoteMetadata = TRUE,
                !.RemoteResult = IF rec.hasRemoteMetadata THEN @ ELSE NilResult,
                !.CacheHit = IF rec.hasRemoteMetadata THEN @ ELSE FALSE,
                !.UpdatedCache = TRUE]

\* a.cacheLocal(): the early returns without an execution context, on a
\* Result that is not ok or DoNotCache, and on a failed generateDepsFile;
\* then UpdateCachedResult, and the log record when its Result has no Err
cacheLocal ==
    /\ op = "cacheLocal" /\ pc = "start"
    /\ \E doNotCache \in BOOLEAN, depsErr \in BOOLEAN,
          updated \in UpdateCachedResultOutcomes :
          IF ~a_execContext.exists \/ ~IsOk(a_res) \/ doNotCache \/ depsErr
          THEN UNCHANGED <<a_execContext, a_rec>>
          ELSE /\ a_execContext' = [a_execContext EXCEPT !.Result = updated]
               /\ a_rec' = IF updated.err # NoErr THEN a_rec ELSE cacheLocal_rec(a_rec)
    /\ pc' = "done"
    /\ UNCHANGED <<op, retLine, a_res, a_oe, dFile, depsVerified, racingBias,
                   maxHoldoff, numFallbacks, ctxDone, ctxDoneAt, cancelCalled, ch,
                   lChCloses, winner, first, rr, rpc, rOut, tpc, forecastErr,
                   forecastDl, sl, lpc, lOut, pool, procStarted, cpc, tmpExists,
                   tmpFiles, execInvoked>>
    /\ UNCHANGED <<outputVars, utilVars>>

\* -------------------------------------------------- moveOutputsFromTemp
\* a.moveOutputsFromTemp(tmpDir)
moveOutputsFromTemp_call ==
    /\ op = "moveOutputsFromTemp" /\ pc = "start"
    /\ mvRet' = moveOutputsFromTemp_calls(mv)
    /\ pc' = "done"
    /\ UNCHANGED <<op, retLine, a_res, a_oe, a_execContext, a_rec, dFile,
                   depsVerified, racingBias, maxHoldoff, numFallbacks, ctxDone,
                   ctxDoneAt, cancelCalled, ch, lChCloses, winner, first, rr, rpc,
                   rOut, tpc, forecastErr, forecastDl, sl, lpc, lOut, pool,
                   procStarted, cpc, tmpExists, tmpFiles, execInvoked>>
    /\ UNCHANGED <<outputVars, acts, heap, outs, filteredOuts, host, path,
                   depthRet, dirRet, mv, tmpVars>>

\* ----------------------------------------------------------------- spec
Next ==
    \/ CancelParent
    \/ race_createTmpDir
    \/ race_recvFirst
    \/ race_ctxDoneFirst
    \/ race_recvSecond
    \/ race_ctxDoneSecond
    \/ race_finalize
    \/ runRemoteRace_newContext
    \/ runRemoteRace_getCachedResult
    \/ runRemoteRace_executeCall
    \/ runRemoteRace_executeRemotely
    \/ runRemoteRace_downloadWrite
    \/ runRemoteRace_downloadDone
    \/ race_sendRemote
    \/ holdoff_forecast
    \/ holdoff_closeLCh
    \/ race_localSelect
    \/ pool_canceled
    \/ pool_start
    \/ pool_exit
    \/ runLocalRace_return
    \/ race_sendLocal
    \/ cleanup_open
    \/ cleanup_removeAll
    \/ runLocal_call
    \/ runLocal_return
    \/ runRemote
    \/ getCachedResult
    \/ cacheLocal

Spec == Init /\ [][Next]_vars

\* the remote goroutine up to the cache lookup, and the holdoff goroutine
HoldoffNext ==
    \/ race_createTmpDir
    \/ runRemoteRace_newContext
    \/ runRemoteRace_getCachedResult
    \/ holdoff_forecast
    \/ holdoff_closeLCh

HoldoffSpec == HoldoffInit /\ [][HoldoffNext]_vars

\* race over every state of the declared outputs and every failing call,
\* along the runs in which the parent is not canceled and the local pool
\* has not taken up the command
MtimeInit ==
    /\ InitWith({"race"}, {<<1, 2>>}, {Millisecond})
    /\ dFile = ""
    /\ OutputsAny
    /\ fsFaults.stat = {}
    /\ UtilIdle

MtimeNext ==
    \/ race_createTmpDir
    \/ race_recvFirst
    \/ race_recvSecond
    \/ race_finalize
    \/ runRemoteRace_newContext
    \/ runRemoteRace_getCachedResult
    \/ runRemoteRace_executeCall
    \/ runRemoteRace_executeRemotely
    \/ runRemoteRace_downloadWrite
    \/ runRemoteRace_downloadDone
    \/ race_sendRemote
    \/ race_localSelect
    \/ race_sendLocal

MtimeSpec == MtimeInit /\ [][MtimeNext]_vars

\* duplicate on an action with or without a log record, with the writes
\* of the holders of the receiver and of the duplicates
DuplicateInit ==
    /\ InitWith({"duplicate"}, {<<1, 2>>}, {Millisecond})
    /\ dFile = ""
    /\ OutputsFixed
    /\ \E hasRec \in BOOLEAN : acts = <<OrigAction(hasRec)>>
    /\ heap = OrigHeap
    /\ outs = EmptyOutputMap
    /\ filteredOuts = EmptyOutputMap
    /\ host = "posix"
    /\ path = <<>>
    /\ depthRet = 0
    /\ dirRet = <<>>
    /\ MoveIdle
    /\ TmpIdle

DuplicateNext == duplicate \/ mutate

DuplicateSpec == DuplicateInit /\ [][DuplicateNext]_vars

\* excludeUnchangedOutputs on every map of remote outputs, every state of
\* the destinations and every failing os.Stat and digest.NewFromFile
ExcludeInit ==
    /\ InitWith({"excludeUnchangedOutputs"}, {<<1, 2>>}, {Millisecond})
    /\ dFile = ""
    /\ opts = [DownloadOutputs |-> TRUE, PreserveUnchangedOutputMtime |-> TRUE]
    /\ disk \in [Outputs -> {NoFile} \cup {OldFile(d) : d \in Digests}]
    /\ preDisk = disk
    /\ remoteOuts = [o \in Outputs |-> "d1"]
    /\ fsFaults \in {f \in Faults : f.chtimes = {} /\ ~f.outDigests /\ ~f.flattened}
    /\ preExecOuts = NoPreExecOuts
    /\ acts = <<>>
    /\ heap = <<>>
    /\ outs \in OutputMaps
    /\ filteredOuts = EmptyOutputMap
    /\ host = "posix"
    /\ path = <<>>
    /\ depthRet = 0
    /\ dirRet = <<>>
    /\ MoveIdle
    /\ TmpIdle

ExcludeNext == excludeUnchangedOutputs_call

ExcludeSpec == ExcludeInit /\ [][ExcludeNext]_vars

\* depth and toRemoteWorkingDir on every path without volume name, built
\* for either family of hosts
PathInit ==
    /\ InitWith({"depth", "toRemoteWorkingDir"}, {<<1, 2>>}, {Millisecond})
    /\ dFile = ""
    /\ OutputsFixed
    /\ acts = <<>>
    /\ heap = <<>>
    /\ outs = EmptyOutputMap
    /\ filteredOuts = EmptyOutputMap
    /\ host \in Hosts
    /\ path \in {p \in Paths : ~hasVolumeSyntax(host, p)}
    /\ depthRet = 0
    /\ dirRet = <<>>
    /\ MoveIdle
    /\ TmpIdle

PathNext == depth_call \/ toRemoteWorkingDir_call

PathSpec == PathInit /\ [][PathNext]_vars

\* an action and its duplicates, each raced once: createTmpDir at the start
\* of a race, the cleanup at some time after it
TmpNext == duplicate \/ createTmpDir_call \/ createTmpDir_cleanup

TmpSpec == DuplicateInit /\ [][TmpNext]_vars

\* moveOutputsFromTemp on every division of the declared outputs into files
\* and directories and every failing call, and the race of an action up to
\* its return after a remote win, the parent not canceled
MoveInit ==
    /\ InitWith({"race", "moveOutputsFromTemp"}, {<<1, 2>>}, {Millisecond})
    /\ dFile = ""
    /\ OutputsFixed
    /\ acts = <<>>
    /\ heap = <<>>
    /\ outs = EmptyOutputMap
    /\ filteredOuts = EmptyOutputMap
    /\ host = "posix"
    /\ path = <<>>
    /\ depthRet = 0
    /\ dirRet = <<>>
    /\ IF op = "race" THEN MoveIdle
       ELSE mv \in MoveInputs /\ mvRet = MoveReturn(<<>>, FALSE)
    /\ TmpIdle

MoveNext == moveOutputsFromTemp_call \/ MtimeNext

MoveSpec == MoveInit /\ [][MoveNext]_vars

\* a step of race, of its goroutines or of what they call: every step but
\* the cancellation of the parent
raceStep ==
    \/ race_createTmpDir
    \/ race_recvFirst
    \/ race_ctxDoneFirst
    \/ race_recvSecond
    \/ race_ctxDoneSecond
    \/ race_finalize
    \/ runRemoteRace_newContext
    \/ runRemoteRace_getCachedResult
    \/ runRemoteRace_executeCall
    \/ runRemoteRace_executeRemotely
    \/ runRemoteRace_downloadWrite
    \/ runRemoteRace_downloadDone
    \/ race_sendRemote
    \/ holdoff_forecast
    \/ holdoff_closeLCh
    \/ race_localSelect
    \/ pool_canceled
    \/ pool_start
    \/ pool_exit
    \/ runLocalRace_return
    \/ race_sendLocal
    \/ cleanup_open
    \/ cleanup_removeAll

\* the goroutines are scheduled and every call of the remote client, the
\* local pool, the forecaster and the file system returns: while a step
\* can be taken, one is taken
TerminationSpec == Spec /\ WF_vars(raceStep)

\* the remote goroutine is scheduled, and an RPC on the background context
\* returns
RemoteFairSpec ==
    /\ Spec
    /\ WF_vars(runRemoteRace_executeCall)
    /\ WF_vars(runRemoteRace_executeRemotely)

\* =============================================================== claims
Min(x, y) == IF x < y THEN x ELSE y

\* race has returned by a return statement that follows a decided winner
\* (not one of the two returns on the parent's cancellation, nor the one on
\* a failed temp directory creation)
ReturnedWithWinner == op = "race" /\ pc = "done" /\ retLine \in {313, 334}

\* the holdoff goroutine has computed sl
HoldoffComputed == tpc \in {"sleep", "done"}

\* C1: whenever race has returned, by whichever return statement and with
\* or without a cancellation of the parent, a.res is not nil.
C1_ResultAtReturn ==
    (op = "race" /\ pc = "done") => a_res # NilResult

\* C2: when the parent scope was canceled while the coordinator waited for
\* the first or for the second outcome, race returns with a.res being the
\* local-error Result of the parent's cancellation error.
C2_ParentCancelResult ==
    [][(op = "race" /\ pc # "done" /\ pc' = "done"
            /\ ctxDoneAt' \in {"wait1", "wait2"})
        => a_res' = NewLocalErrorResult(ctxErr)]_vars

\* C3, as stated: once race has returned and the local goroutine has
\* delivered an outcome of kind local, the winner is local and a.res is the
\* local result; the remote result is the action's Result only if the local
\* goroutine delivered a canceled outcome.
C3_LocalOutcomeWins ==
    (op = "race" /\ pc = "done") =>
        /\ (lpc = "done" /\ lOut.t = local) =>
               (winner.t = local /\ a_res = lOut.res)
        /\ (winner.t = remote /\ a_res = winner.res) =>
               (lpc = "done" /\ lOut.t = canceled)

\* C3, amended: the same, for a race that returned without taking a
\* ctx.Done() branch.
C3_LocalOutcomeWinsUnlessParentCanceled ==
    ReturnedWithWinner =>
        /\ (lpc = "done" /\ lOut.t = local) =>
               (winner.t = local /\ a_res = lOut.res)
        /\ (winner.t = remote /\ a_res = winner.res) =>
               (lpc = "done" /\ lOut.t = canceled)

\* C3 witness: remote was received first, local delivered a local outcome
\* second and was promoted.
C3_Witness ==
    /\ ReturnedWithWinner
    /\ first.t = remote
    /\ rr.t = local /\ rr = lOut
    /\ winner.t = local
    /\ a_res = lOut.res

\* the remote goroutine has delivered a canceled outcome that carries a
\* result of the execution context that is not ok (cache lookup, remote
\* execution or download failure)
RemoteEndedNotOk ==
    rpc = "done" /\ rOut.t = canceled /\ rOut.res.origin = "remote"

\* C4, as stated: when the remote attempt has ended with a non-ok result
\* and race has returned, the local goroutine has delivered its outcome.
C4_RemoteErrorWaitsForLocal ==
    (op = "race" /\ pc = "done" /\ RemoteEndedNotOk) => lpc = "done"

\* C4, amended: the same, for a race that returned without taking a
\* ctx.Done() branch.
C4_RemoteErrorWaitsForLocalUnlessParentCanceled ==
    (ReturnedWithWinner /\ RemoteEndedNotOk) => lpc = "done"

\* C4 witness: the remote execution failed, its outcome was received first,
\* and race returned after receiving the local outcome.
C4_Witness ==
    /\ ReturnedWithWinner
    /\ rpc = "done" /\ rOut.res = ExecErrResult
    /\ first = rOut
    /\ lpc = "done" /\ rr = lOut

\* C5: a.res is a remote cache-hit result while a dependency file is stored
\* only if VerifyDepsFile has returned ok without error.
C5_NoUnverifiedCacheHit ==
    (a_res.status = "cache_hit" /\ dFile # "") => depsVerified

\* C6: LocalMetadata.ExecutedLocally is true only if the pool started a
\* local process.
C6_ExecutedLocallyMeansStarted ==
    a_rec.ExecutedLocally => procStarted

\* C7: once race has returned normally and the cleanup goroutine and both
\* attempt goroutines have finished, the temp directory does not exist.
C7_TmpDirRemoved ==
    (op = "race" /\ retLine = 334 /\ cpc = "done" /\ rpc = "done" /\ lpc = "done")
        => ~tmpExists

\* C8, as stated: with a forecast d the holdoff is min(d * 2 * racingBias,
\* maxHoldoff) (compared after multiplying by the bias denominator).
C8_HoldoffIsScaledForecast ==
    (HoldoffComputed /\ ~forecastErr) =>
        sl * racingBias[2] =
            Min(forecastDl * 2 * racingBias[1], maxHoldoff * racingBias[2])

\* C8, amended: with a forecast d the holdoff is min(T, maxHoldoff), where
\* T is d truncated to whole milliseconds, times 2 * racingBias, truncated
\* to whole milliseconds: the truncated d at bias 0.5, zero at bias 0, twice
\* the truncated d at bias 1 (each clamped), never more than maxHoldoff nor
\* than d * 2 * racingBias.
C8_HoldoffIsTruncatedScaledForecast ==
    (HoldoffComputed /\ ~forecastErr) =>
        LET num == racingBias[1]
            den == racingBias[2]
            whole == forecastDl \div Millisecond
            scaledMs == (whole * 2 * num) \div den
        IN  /\ sl = Min(scaledMs * Millisecond, maxHoldoff)
            /\ sl <= maxHoldoff
            /\ sl * den <= forecastDl * 2 * num
            /\ 2 * num = den => sl = Min(whole * Millisecond, maxHoldoff)
            /\ num = 0 => sl = 0
            /\ num = den => sl = Min(2 * whole * Millisecond, maxHoldoff)

\* C8 witness: at bias 0.5 a forecast that is not a whole number of
\* milliseconds gives a holdoff below the forecast and below maxHoldoff.
C8_Witness ==
    /\ tpc = "done" /\ ~forecastErr
    /\ racingBias = <<1, 2>>
    /\ forecastDl % Millisecond # 0
    /\ sl < forecastDl /\ forecastDl < maxHoldoff
    /\ lChCloses = 1

\* C9, as stated: when the forecaster returned an error the holdoff is
\* maxHoldoff.
C9_ForecastErrorHoldoffIsMax ==
    (HoldoffComputed /\ forecastErr) => sl = maxHoldoff

\* C9, amended: when the forecaster returned an error, maxHoldoff takes the
\* place of the forecast and is scaled like one: the holdoff is maxHoldoff
\* when racingBias >= 0.5 and maxHoldoff is a whole number of milliseconds,
\* zero at bias 0, and never more than maxHoldoff.
C9_ForecastErrorHoldoffIsScaledMax ==
    (HoldoffComputed /\ forecastErr) =>
        LET num == racingBias[1]
            den == racingBias[2]
            whole == maxHoldoff \div Millisecond
        IN  /\ sl = Min(((whole * 2 * num) \div den) * Millisecond, maxHoldoff)
            /\ sl <= maxHoldoff
            /\ (2 * num >= den /\ maxHoldoff % Millisecond = 0) => sl = maxHoldoff
            /\ num = 0 => sl = 0

\* C9 witness: the forecaster failed at bias 0.25 with a maxHoldoff of one
\* millisecond, and lCh was closed after a holdoff of zero.
C9_Witness ==
    /\ tpc = "done" /\ forecastErr
    /\ racingBias = <<1, 4>>
    /\ maxHoldoff = Millisecond
    /\ sl = 0
    /\ lChCloses = 1

\* C10: numFallbacks is 1 exactly when the first outcome received was
\* canceled and the second was local, and then local is the winner;
\* otherwise it is unchanged (0).
C10_FallbackCounted ==
    op = "race" =>
        /\ numFallbacks = IF first.t = canceled /\ rr.t = local THEN 1 ELSE 0
        /\ (first.t = canceled /\ rr.t = local) => winner = rr

\* C10 witness: the remote context creation failed, lCh was closed, local
\* ran to completion with exit code 0 and race returned it.
C10_Witness ==
    /\ ReturnedWithWinner
    /\ ~a_execContext.exists /\ first = rOut /\ first.t = canceled
    /\ rr.t = local /\ winner.t = local
    /\ a_res = NewResultFromExitCode(0)
    /\ numFallbacks = 1

\* race has returned with the remote outcome as the winner, its outputs moved
RemoteWon == op = "race" /\ pc = "done" /\ retLine = 334 /\ winner.t = remote

\* every call made for output o succeeds, and so does GetOutputFileDigests
NoFaultOn(o) ==
    /\ o \notin fsFaults.stat \cup fsFaults.digest \cup fsFaults.chtimes
    /\ ~fsFaults.outDigests

\* C11: after race returned with a remote winner and preserve-unchanged-mtime
\* on, every declared output that existed before the execution with the
\* digest the remote result gives it has its pre-execution mtime, whatever
\* happens to the other outputs (stated for the outputs whose own stat,
\* digest and chtimes calls succeed).
C11_UnchangedMtimeRestored ==
    (RemoteWon /\ opts.PreserveUnchangedOutputMtime) =>
        \A o \in Outputs :
            (preDisk[o].exists /\ preDisk[o].digest = remoteOuts[o] /\ NoFaultOn(o))
                => disk[o].mtime = preDisk[o].mtime

\* runRemote has returned after NewContext succeeded (its result then comes
\* from the execution context)
RunRemoteWithContext == op = "runRemote" /\ pc = "done" /\ a_res.origin = "remote"

\* C12, as stated: in runRemote with the context created, ExecuteRemotely is
\* not invoked only when the cached result is present and ok; in every other
\* case it is invoked and a.res and the remote metadata are the execution's
\* result.
C12_ExecutesUnlessCachedOk ==
    RunRemoteWithContext =>
        /\ ~execInvoked => (a_res = CacheHitResult /\ IsOk(a_res))
        /\ execInvoked => a_res \in ExecuteRemotelyOutcomes
        /\ a_rec.RemoteResult = a_res

\* C12, amended: ExecuteRemotely is not invoked exactly when the cache
\* lookup left a result that is not nil, ok or not, and that result is then
\* a.res; it is invoked exactly when the lookup left nil, and a.res is then
\* the execution's result; the remote metadata carry a.res in both cases.
\* Every result the lookup can leave, ok or not, can be so adopted.
C12_ExecutesOnlyOnNilCached ==
    /\ (op = "runRemote" /\ pc = "start") =>
        \A c \in GetCachedResultOutcomes \ {NilResult} :
            ENABLED (runRemote /\ a_res' = c /\ ~execInvoked')
    /\ (op = "runRemote" /\ pc = "done") =>
        /\ a_rec.RemoteResult = a_res /\ a_rec.hasRemoteMetadata
        /\ a_res.origin = "remote" =>
            /\ ~execInvoked <=> a_res \in (GetCachedResultOutcomes \ {NilResult})
            /\ execInvoked <=> a_res \in ExecuteRemotelyOutcomes
        /\ a_res.origin # "remote" =>
            (~execInvoked /\ a_res = NewLocalErrorResult("new context"))

\* C12 witness: the cache lookup failed and runRemote returned its result
\* without executing.
C12_Witness ==
    /\ RunRemoteWithContext
    /\ a_res = CacheErrResult /\ ~IsOk(a_res)
    /\ ~execInvoked
    /\ a_rec.RemoteResult = CacheErrResult

\* the remote attempt of race is at the call of ExecuteRemotely after a miss
RemoteMissed == op = "race" /\ rpc = "execute"

\* C13: on a cache miss in race, ExecuteRemotely is invoked and returns one
\* of its own outcomes, whether or not the sibling scope was canceled
\* meanwhile; a canceled sibling scope only makes the remote attempt return
\* canceled with no result in place of downloading the outputs.
C13_ExecuteRunsToCompletion ==
    /\ RemoteMissed ~>
           (/\ rpc \in {"send", "download"}
            /\ execInvoked
            /\ a_execContext.Result \in ExecuteRemotelyOutcomes)
    /\ [][runRemoteRace_executeRemotely =>
            /\ a_execContext'.Result \in ExecuteRemotelyOutcomes
            /\ cCtxDone => (rpc' = "send" /\ rOut' = raceResult(canceled, NilResult, "none"))
            /\ ~cCtxDone => (rpc' = "download" <=> IsOk(a_execContext'.Result))]_vars

\* C13 witness: local won and canceled the sibling scope, and the remote
\* execution still returned its own successful result, the download skipped.
C13_Witness ==
    /\ op = "race" /\ execInvoked
    /\ cancelCalled /\ winner.t = local
    /\ rpc = "send"
    /\ a_execContext.Result = ExecOkResult
    /\ rOut = raceResult(canceled, NilResult, "none")

\* what is seen through action k: for each target, the last writer of the
\* object (0: nobody since it was made; -1: no object)
View(k) ==
    [t \in Targets |->
        IF targetAddr(heap, acts[k], t) = 0 THEN -1
        ELSE heap[targetAddr(heap, acts[k], t)].val]

\* C14: a write through one of the receiver and its duplicates to its log
\* record (the Environment and Labels of its LocalMetadata included), its
\* output sink or one of its option messages changes nothing that is seen
\* through any other of them.
C14_DuplicatesIndependent ==
    [][\A j \in 1..Len(acts), t \in Targets :
          write(j, t) => \A k \in (1..Len(acts)) \ {j} : View(k)' = View(k)]_vars

\* excludeUnchangedOutputs has returned
Excluded == op = "excludeUnchangedOutputs" /\ pc = "done"

\* the destination of output o is missing or cannot be stat-ed
CannotStat(o) == ~disk[o].exists \/ o \in fsFaults.stat

\* C15: the map excludeUnchangedOutputs returns holds exactly the entries
\* of outs whose destination is missing or cannot be stat-ed, or whose
\* existing file cannot be digested, or whose existing file has another
\* hash than the remote node; each with the node outs gives it; the
\* destinations are left as they were.
C15_ExcludesExactlyUnchanged ==
    Excluded =>
        /\ DOMAIN filteredOuts =
               {o \in DOMAIN outs :
                   \/ CannotStat(o)
                   \/ ~CannotStat(o) /\ o \in fsFaults.digest
                   \/ ~CannotStat(o) /\ o \notin fsFaults.digest
                        /\ disk[o].digest # outs[o]}
        /\ \A o \in DOMAIN filteredOuts : filteredOuts[o] = outs[o]
        /\ \A o \in DOMAIN outs : ~disk[o].exists => o \in DOMAIN filteredOuts
        /\ \A o \in DOMAIN outs :
               (~CannotStat(o) /\ o \notin fsFaults.digest /\ disk[o].digest = outs[o])
                   => o \notin DOMAIN filteredOuts
        /\ disk = preDisk

\* C15 witness: of two remote outputs, the one missing on disk is returned
\* and the one whose file has the remote hash is not.
C15_Witness ==
    /\ Excluded
    /\ \E o, q \in DOMAIN outs :
        /\ ~disk[o].exists /\ o \in DOMAIN filteredOuts
        /\ disk[q].exists /\ disk[q].digest = outs[q] /\ q \notin DOMAIN filteredOuts

\* number of characters of p that are in the set cs
CountOf(p, cs) == Cardinality({i \in 1..Len(p) : p[i] \in cs})

DepthReturned == op = "depth" /\ pc = "done"

DirReturned == op = "toRemoteWorkingDir" /\ pc = "done"

\* dir is set_by_reclient followed by n - 1 segments a, joined by the
\* separator of the host
IsCanonicalDir(dir, n) ==
    /\ n >= 1
    /\ Len(dir) = 2 * n - 1
    /\ dir[1] = "set_by_reclient"
    /\ \A i \in 2..Len(dir) :
           dir[i] = IF i % 2 = 0 THEN PathSeparator(host) ELSE "a"

\* C17, as stated: for every working directory other than "" and ".", the
\* returned directory has the depth of the argument, its first segment is
\* set_by_reclient and every other segment is a; "" and "." are returned
\* unchanged.
C17_PreservesDepth ==
    DirReturned =>
        IF path = <<>> \/ path = <<".">> THEN dirRet = path
        ELSE /\ depth(host, dirRet) = depth(host, path)
             /\ IsCanonicalDir(dirRet, depth(host, path))

\* C17, amended: the returned directory has the depth of the cleaned
\* argument, which is at most the depth of the argument and equal to it
\* when the argument is clean; its first segment is set_by_reclient and
\* every other segment is a; "" and "." are returned unchanged.
C17_PreservesCleanedDepth ==
    DirReturned =>
        IF path = <<>> \/ path = <<".">> THEN dirRet = path
        ELSE /\ depth(host, dirRet) = depth(host, Clean(host, path))
             /\ IsCanonicalDir(dirRet, depth(host, Clean(host, path)))
             /\ depth(host, dirRet) <= depth(host, path)
             /\ Clean(host, path) = path => depth(host, dirRet) = depth(host, path)

\* C17 witness: a clean working directory of three segments gives
\* set_by_reclient followed by two segments a.
C17_Witness ==
    /\ DirReturned
    /\ Clean(host, path) = path /\ depth(host, path) = 3
    /\ IsCanonicalDir(dirRet, 3)

\* GetCachedResult has returned in the remote attempt of race
HitOrMissDetermined ==
    a_execContext.exists /\ rpc \in {"execute", "executing", "download", "send", "done"}

\* NewContext has failed in the remote attempt of race
ContextCreationFailed == ~a_execContext.exists /\ rpc \in {"send", "done"}

\* C18, as stated: lCh is closed at most once in race, and only after the
\* remote attempt has determined whether the action is a hit or a miss.
C18_ClosedOnceAfterLookup ==
    op = "race" =>
        /\ lChCloses <= 1
        /\ lChCloses > 0 => HitOrMissDetermined

\* C18, amended: lCh is closed at most once in race, whichever of context
\* creation failure, miss or hit occurs; it is closed only after the remote
\* attempt has determined hit or miss, or after the creation of the
\* execution context has failed, in which case nothing is ever determined;
\* on a hit it is the holdoff goroutine that closes it, and on a miss and
\* on a creation failure no holdoff goroutine exists.
C18_ClosedOnceAfterLookupOrFailure ==
    op = "race" =>
        /\ lChCloses <= 1
        /\ lChCloses > 0 => (HitOrMissDetermined \/ ContextCreationFailed)
        /\ (lChCloses > 0 /\ tpc # "idle") => tpc = "done"
        /\ ContextCreationFailed => (lChCloses = 1 /\ tpc = "idle")
        /\ ~(HitOrMissDetermined /\ ContextCreationFailed)

\* C18 witness: the creation of the execution context failed, and lCh was
\* closed once with no cache lookup made.
C18_Witness ==
    /\ op = "race"
    /\ ContextCreationFailed
    /\ lChCloses = 1
    /\ a_execContext.Result = NilResult
    /\ rOut = raceResult(canceled, NewLocalErrorResult("new context"), "none")

\* C19: on a miss in race, lCh is closed, by the remote attempt itself and
\* with no holdoff goroutine, before ExecuteRemotely is invoked; while the
\* remote execution is running the local attempt can pass its select on
\* lCh.
C19_MissClosesBeforeExecute ==
    /\ [](op = "race" =>
            /\ rpc \in {"execute", "executing"} => (lChCloses = 1 /\ tpc = "idle")
            /\ execInvoked => lChCloses = 1
            /\ (rpc = "executing" /\ lpc = "select") =>
                   ENABLED (race_localSelect /\ lpc' = "run"))
    /\ [][runRemoteRace_executeCall => (lChCloses = 1 /\ ~execInvoked)]_vars

\* C19 witness: the local process is running while the remote execution
\* has not returned.
C19_Witness ==
    /\ op = "race"
    /\ rpc = "executing"
    /\ pool.st = "running" /\ procStarted
    /\ tpc = "idle"

\* the remote attempt of race had a hit; the holdoff goroutine exists
Hit == op = "race" /\ tpc # "idle"

\* the holdoff goroutine's sleep is over and it has closed lCh
HoldoffElapsed == tpc = "done"

\* the remote attempt has sent an outcome of kind remote on ch while the
\* holdoff of its hit has not elapsed
RemoteDeliveredInHoldoff ==
    Hit /\ ~HoldoffElapsed /\ rpc = "done" /\ rOut.t = remote

\* the local goroutine is past pool.Run
RunInvoked == pool.st # "idle"

\* C20, as stated: on a hit, pool.Run is not invoked before the holdoff has
\* elapsed; once the remote attempt has delivered an outcome of kind remote
\* before the holdoff elapsed, no local process is ever started, the local
\* attempt ends canceled, the winner is remote and numFallbacks is
\* unchanged.
C20_RemoteInHoldoffCancelsLocal ==
    /\ [](Hit /\ RunInvoked => HoldoffElapsed)
    /\ [](RemoteDeliveredInHoldoff =>
            [](/\ ~procStarted
               /\ lpc = "done" => lOut.t = canceled
               /\ ReturnedWithWinner => (winner.t = remote /\ numFallbacks = 0)))

\* C20, amended: on a hit, pool.Run is not invoked before the holdoff has
\* elapsed; once the remote attempt has delivered an outcome of kind remote
\* before the holdoff elapsed, numFallbacks is unchanged, and a race that
\* returns with a winner, its parent context not canceled, has winner remote
\* unless a local process was started after all, in which case the winner
\* is local; a local attempt
\* that ends before the holdoff elapses ends canceled with no local process
\* started. (When the holdoff elapses before the local goroutine has taken
\* the cancellation, Run may still be invoked and the pool may still start
\* the process.)
C20_RemoteInHoldoffWins ==
    /\ [](Hit /\ RunInvoked => HoldoffElapsed)
    /\ [](RemoteDeliveredInHoldoff =>
            [](/\ numFallbacks = 0
               /\ (ReturnedWithWinner /\ ~ctxDone) =>
                      /\ winner.t \in {remote, local}
                      /\ winner.t = local => procStarted
                      /\ ~procStarted => winner.t = remote))
    /\ []((Hit /\ ~HoldoffElapsed /\ lpc \in {"send", "done"}) =>
            (lOut.t = canceled /\ ~procStarted /\ ~RunInvoked))

\* C20 witness: race returned with the remote winner of a hit while the
\* holdoff goroutine is still asleep, the local attempt canceled and no
\* process started.
C20_Witness ==
    /\ Hit /\ ~HoldoffElapsed /\ ~ctxDone
    /\ ReturnedWithWinner /\ winner.t = remote
    /\ rpc = "done" /\ rOut.t = remote
    /\ lpc = "done" /\ lOut.t = canceled
    /\ ~procStarted /\ numFallbacks = 0

\* the coordinator of race has received its first outcome
FirstReceived == op = "race" /\ first # NoRaceResult

\* C21: in race, cancel() of the sibling scope has been called exactly when
\* the first received outcome is of kind remote or local; after a first
\* outcome of kind canceled it is never called, so that, the parent not
\* canceled, a local attempt whose lCh is closed can pass its select into
\* pool.Run and a queued command is not canceled by the pool.
C21_CancelIffFirstNotCanceled ==
    op = "race" =>
        /\ cancelCalled <=> (FirstReceived /\ first.t \in {remote, local})
        /\ (FirstReceived /\ first.t = canceled) => ~cancelCalled
        /\ (FirstReceived /\ first.t = canceled /\ lpc = "select" /\ lChClosed) =>
               ENABLED (race_localSelect /\ lpc' = "run")
        /\ (FirstReceived /\ first.t = canceled /\ ~ctxDone) =>
               /\ ~ENABLED pool_canceled
               /\ ~ENABLED (race_localSelect /\ lpc' = "send")
               /\ pool.st = "queued" => ENABLED pool_start

\* C21 witness: the first outcome was the remote attempt's failure, of kind
\* canceled; the sibling scope is not canceled and the local process runs.
C21_Witness ==
    /\ FirstReceived /\ first.t = canceled /\ first.res = ExecErrResult
    /\ pc = "wait2"
    /\ ~cancelCalled /\ ~ctxDone
    /\ pool.st = "running" /\ procStarted

RaceReturned == op = "race" /\ pc = "done"

\* C23: after race has returned, no goroutine it started writes a.res,
\* a.rec or a.execContext.
C23_NoWriteAfterReturn ==
    [][RaceReturned =>
          (a_res' = a_res /\ a_rec' = a_rec /\ a_execContext' = a_execContext)]_vars

\* the step of race that calls moveOutputsFromTemp
MovesOutputs == race_finalize /\ winner.t = remote

\* C24: race calls moveOutputsFromTemp only for a final winner of kind
\* remote, and then the local attempt has delivered an outcome of kind
\* canceled, which the coordinator has received, and is not in the pool any
\* more; the declared outputs in the exec root are changed by no other step
\* of race, and a race whose local attempt delivered an outcome of kind
\* local returns with the outputs as they were.
C24_MoveOnlyAfterLocalCanceled ==
    /\ [][MovesOutputs =>
             /\ first.t = remote
             /\ lpc = "done" /\ lOut.t = canceled /\ rr = lOut
             /\ pool.st \notin {"queued", "running"}]_vars
    /\ [][(op = "race" /\ disk' # disk) => MovesOutputs]_vars
    /\ []((op = "race" /\ lpc = "done" /\ lOut.t = local) => disk = preDisk)

\* C24 witness: race returned with the remote winner, the local attempt
\* canceled, and the staged outputs are in the exec root.
C24_Witness ==
    /\ RaceReturned /\ retLine = 334 /\ winner.t = remote
    /\ lpc = "done" /\ lOut.t = canceled
    /\ disk # preDisk
    /\ \A o \in Outputs : disk[o].exists /\ disk[o].digest = remoteOuts[o]

\* race has returned with a winner, its parent not canceled, and the
\* remote attempt's outcome is of kind canceled and carries a failure result
ReturnedAfterRemoteFailure ==
    /\ ReturnedWithWinner /\ ~ctxDone
    /\ rpc \in {"send", "done"} /\ rOut.t = canceled /\ rOut.res # NilResult

\* C25, as stated: a remote result that is not ok is delivered as an
\* outcome of kind canceled that carries it; at the return of race a.res is
\* the local result when the local attempt delivered a local outcome, and
\* the remote failure result when it did not.
C25_RemoteFailureUnlessLocal ==
    /\ (op = "race" /\ rpc \in {"send", "done"} /\ rOut.res # NilResult /\ ~IsOk(rOut.res)) =>
           rOut.t = canceled
    /\ ReturnedAfterRemoteFailure =>
           /\ lOut.t = local => a_res = lOut.res
           /\ lOut.t # local => a_res = rOut.res

\* C25, amended: a remote result that is not ok is delivered as an outcome
\* of kind canceled that carries it; at the return of race, the parent not
\* canceled, a.res is the local result when the local attempt delivered a
\* local outcome, whatever the order; when the local attempt delivered a
\* canceled outcome, which then carries a local error, a.res is the result
\* of the outcome the coordinator received first: the remote failure only
\* when the remote outcome came first.
C25_FirstFailureUnlessLocal ==
    /\ (op = "race" /\ rpc \in {"send", "done"} /\ rOut.res # NilResult /\ ~IsOk(rOut.res)) =>
           rOut.t = canceled
    /\ ReturnedAfterRemoteFailure =>
           /\ lOut.t = local => (a_res = lOut.res /\ winner = lOut)
           /\ (lOut.t = local /\ first = rOut) => numFallbacks = 1
           /\ lOut.t # local =>
                  /\ lOut.t = canceled /\ lOut.res # NilResult
                  /\ first \in {rOut, lOut} /\ rr \in {rOut, lOut}
                  /\ a_res = first.res
                  /\ winner.t = canceled

\* C25 witness: the remote execution failed, its outcome came first, the
\* local attempt then delivered a local outcome and a.res is its result.
C25_Witness ==
    /\ ReturnedAfterRemoteFailure
    /\ rOut.res = ExecErrResult /\ first = rOut
    /\ lOut.t = local /\ rr = lOut
    /\ a_res = lOut.res /\ numFallbacks = 1

\* C26: runLocalRace, from what pool.Run returned: a cancellation error
\* gives an outcome of kind canceled with no result and leaves a.res and
\* a.rec as they were; exit code 0 with another error gives canceled with a
\* local-error result of that error, a.res and a.rec as they were; every
\* other return, a non-zero exit code included, with or without an error,
\* gives an outcome of kind local whose result, also stored in a.res and in
\* the record's local metadata, is built from the exit code.
C26_LocalClassification ==
    [][runLocalRace_return =>
          IF pool.err = ctxErr
          THEN /\ lOut' = raceResult(canceled, NilResult, "none")
               /\ a_res' = a_res /\ a_rec' = a_rec
          ELSE IF pool.exitCode = 0 /\ pool.err # NoErr
          THEN /\ lOut' = raceResult(canceled, NewLocalErrorResult(pool.err), "none")
               /\ a_res' = a_res /\ a_rec' = a_rec
          ELSE /\ lOut'.t = local
               /\ lOut'.res = NewResultFromExitCode(pool.exitCode)
               /\ a_res' = lOut'.res
               /\ a_rec'.ExecutedLocally /\ a_rec'.LocalResult = lOut'.res]_vars

\* C26 witness: the process exited with a non-zero code and an error, and
\* the outcome is of kind local with the result of that exit code.
C26_Witness ==
    /\ op = "race" /\ lpc \in {"send", "done"}
    /\ pool.st = "done" /\ pool.exitCode = 1 /\ pool.err = "exec"
    /\ lOut.t = local /\ lOut.res.status = "non_zero_exit" /\ lOut.res.exitCode = 1


\* C27: moveOutputsFromTemp makes every call for a declared output file
\* before any call for a declared output directory; it returns an error
\* exactly when a MkdirAll, RemoveAll or Rename failed, and that call is its
\* last; without an error every staged file and directory has been renamed.
\* A race that returns because the move failed (line 313) returns a
\* local-error Result, not the remote result, and the log record and the
\* outputs of the action are as before the move.
MoveReturned == op = "moveOutputsFromTemp" /\ pc = "done"
RenamedOk(calls, kind, o) ==
    \E i \in DOMAIN calls : calls[i] = Call("Rename", kind, o, TRUE)
C27_FilesBeforeDirsFailureFatal ==
    /\ MoveReturned =>
         LET calls == mvRet.calls
         IN  /\ \A i, j \in DOMAIN calls :
                   (calls[i].kind = "dir" /\ calls[j].kind = "file") => j < i
             /\ mvRet.err <=> \E i \in DOMAIN calls : ~calls[i].ok
             /\ \A i \in DOMAIN calls : ~calls[i].ok => i = Len(calls)
             /\ ~mvRet.err =>
                   /\ \A i \in DOMAIN mv.OutputFiles :
                         mv.OutputFiles[i] \notin mv.skip
                             => RenamedOk(calls, "file", mv.OutputFiles[i])
                   /\ \A i \in DOMAIN mv.OutputDirs :
                         mv.OutputDirs[i] \notin mv.skip
                             => RenamedOk(calls, "dir", mv.OutputDirs[i])
    /\ (RaceReturned /\ retLine = 313) =>
         /\ winner.t = remote
         /\ a_res = NewLocalErrorResult("move outputs")
         /\ a_res # winner.res
         /\ ~a_rec.hasRemoteMetadata
    /\ (RaceReturned /\ retLine = 334 /\ winner.t = remote) => a_res = winner.res
C27_Witness ==
    /\ MoveReturned
    /\ mvRet.err
    /\ RenamedOk(mvRet.calls, "file", 1)
    /\ mvRet.calls[Len(mvRet.calls)] = Call("Rename", "dir", 2, FALSE)


\* C28: a call of getCachedResult that finds an ok cached result takes it
\* as a.res and sets ValidCacheHit when the action has no deps file; when it
\* has one, it does so exactly when VerifyDepsFile returned (true, nil), and
\* otherwise a.res is a local-error Result and ValidCacheHit is as it was
\* (false).  Both outcomes of the verification can happen.
FoundOkCached ==
    /\ getCachedResult
    /\ a_execContext.exists
    /\ a_execContext'.Result # NilResult
    /\ IsOk(a_execContext'.Result)
AcceptedHit ==
    /\ a_res' = a_execContext'.Result
    /\ a_rec'.ValidCacheHit
RejectedHit ==
    /\ a_res' = NewLocalErrorResult("failed deps validation")
    /\ ~IsOk(a_res')
    /\ a_rec'.ValidCacheHit = a_rec.ValidCacheHit
    /\ ~a_rec'.ValidCacheHit
C28_AcceptsOnlyVerifiedHit ==
    /\ [][FoundOkCached =>
            /\ dFile = "" => AcceptedHit
            /\ (dFile # "" /\ depsVerified') => AcceptedHit
            /\ (dFile # "" /\ ~depsVerified') => RejectedHit]_vars
    /\ [](  (op = "getCachedResult" /\ pc = "start" /\ a_execContext.exists)
            => /\ ENABLED (FoundOkCached /\ AcceptedHit)
               /\ dFile # "" => ENABLED (FoundOkCached /\ RejectedHit)
               /\ dFile = "" => ~ENABLED (FoundOkCached /\ RejectedHit))
C28_Witness ==
    /\ op = "getCachedResult" /\ pc = "done"
    /\ dFile # ""
    /\ a_execContext.Result = CacheHitResult
    /\ a_res = NewLocalErrorResult("failed deps validation")
    /\ a_rec.CacheHit
    /\ ~a_rec.ValidCacheHit


\* C29: a call of cacheLocal leaves a.res as it was, on each of its
\* returns.  UpdatedCache is set exactly when UpdateCachedResult was called
\* and left a Result without an Err, and then the RemoteMetadata of the
\* log record has the Result and CacheHit it had before the call; on every
\* other return the log record is as it was.  Each of the returns happens.
UpdatedRemoteCache ==
    /\ a_execContext.exists
    /\ a_execContext'.Result = ExecOkResult
C29_CacheLocalKeepsResult ==
    /\ [][cacheLocal =>
            /\ a_res' = a_res
            /\ a_rec'.UpdatedCache <=> UpdatedRemoteCache
            /\ a_rec'.UpdatedCache =>
                 /\ a_rec'.RemoteResult = a_rec.RemoteResult
                 /\ a_rec'.CacheHit = a_rec.CacheHit
                 /\ a_rec'.hasRemoteMetadata
            /\ ~a_rec'.UpdatedCache => a_rec' = a_rec]_vars
    /\ []((op = "cacheLocal" /\ pc = "start" /\ a_execContext.exists /\ IsOk(a_res))
            => /\ ENABLED (cacheLocal /\ a_rec'.UpdatedCache)
               /\ ENABLED (cacheLocal /\ a_execContext'.Result = UpdateErrResult)
               /\ ENABLED (cacheLocal /\ a_execContext' = a_execContext))
C29_Witness ==
    /\ op = "cacheLocal" /\ pc = "done"
    /\ a_rec.UpdatedCache
    /\ a_rec.CacheHit
    /\ a_rec.RemoteResult = CacheHitResult
    /\ a_execContext.Result = ExecOkResult
    /\ a_res = NewResultFromExitCode(0)


\* C30: the directories createTmpDir returns to two actions, an action and
\* its duplicates among them, are distinct, and the createTmpDir of an
\* action does not fail because the directory of another action exists.
C30_TmpDirsDistinct ==
    /\ \A i, j \in 1..Len(acts) :
          (i # j /\ tmpRet[i].dir # <<>> /\ tmpRet[j].dir # <<>>)
              => tmpRet[i].dir # tmpRet[j].dir
    /\ \A j \in 1..Len(acts) : tmpRet[j].err # "file exists"


\* C31: when race returns at its end, the parent not canceled, having
\* received both outcomes, one of them of kind remote or local and the other
\* canceled, a.res is the result of the remote or local one, whichever came
\* first.
Usable(o) == o.t \in {remote, local}
C31_UsableOutcomeIsResult ==
    (RaceReturned /\ retLine = 334 /\ ~ctxDone /\ first # NoRaceResult
        /\ rr # NoRaceResult) =>
        /\ (Usable(first) /\ rr.t = canceled) => a_res = first.res
        /\ (first.t = canceled /\ Usable(rr)) => a_res = rr.res


\* C32: in a race that has passed createTmpDir, the result channel never
\* holds more than two outcomes; each task sends one outcome when it ends
\* and none before, so two have been sent when both tasks have ended; a
\* task that has its outcome can always send it at once, also when race has
\* returned without receiving the second outcome.
Received ==
    (IF first # NoRaceResult THEN 1 ELSE 0) + (IF rr # NoRaceResult THEN 1 ELSE 0)
TasksEnded ==
    (IF rpc = "done" THEN 1 ELSE 0) + (IF lpc = "done" THEN 1 ELSE 0)
C32_TwoOutcomesNeverBlock ==
    /\ [](op = "race" =>
            /\ Len(ch) <= 2
            /\ Len(ch) + Received = TasksEnded
            /\ rpc = "send" => ENABLED race_sendRemote
            /\ lpc = "send" => ENABLED race_sendLocal)
    /\ [][(op = "race" /\ ch' # ch /\ Len(ch') > Len(ch)) =>
            \/ race_sendRemote /\ ch' = Append(ch, rOut) /\ lpc' = lpc
            \/ race_sendLocal /\ ch' = Append(ch, lOut) /\ rpc' = rpc]_vars
    /\ [][(rpc = "done" => rpc' = "done") /\ (lpc = "done" => lpc' = "done")]_vars
C32_Witness ==
    /\ RaceReturned /\ retLine = 334 /\ ~ctxDone
    /\ first.t = local /\ rr = NoRaceResult
    /\ rpc = "done" /\ lpc = "done"
    /\ ch = <<rOut>>


\* C33: in a race whose parent is never canceled, when the goroutines are
\* scheduled and every external call returns, race returns and then both
\* tasks have ended for good (or were never started, createTmpDir having
\* failed); and in a race that has started its tasks, lCh is closed or the
\* sibling context is canceled at some time, so the local task does not
\* stay at its select.
RaceTerminated ==
    /\ RaceReturned
    /\ rpc \in {"idle", "done"} /\ lpc \in {"idle", "done"}
    /\ retLine # 247 => (rpc = "done" /\ lpc = "done" /\ tpc \in {"idle", "done"})
C33_RaceTerminates ==
    /\ (op = "race" /\ []~ctxDone) => <>[]RaceTerminated
    /\ (op = "race" /\ []~ctxDone) =>
           <>((RaceReturned /\ retLine = 247) \/ lChClosed \/ cancelCalled)
C33_Witness ==
    /\ RaceTerminated /\ ~ctxDone
    /\ retLine = 334
    /\ first.t = remote /\ rr.t = canceled /\ cancelCalled
    /\ ch = <<>>

====
